---- MODULE Spec2Model ----
(***************************************************************************)
(* Castles: the simulation core of game.py (player physics, enemy AI,      *)
(* interaction and completion resolution, the run loop) and the level      *)
(* file written by tile_editor.py and read by Level.load_level.            *)
(*                                                                         *)
(* Lengths.  The game keeps positions and velocities as Python floats.     *)
(* Every value the modelled code produces is a multiple of 0.5 (GRAVITY),  *)
(* so the model stores positions and velocities as integers counting       *)
(* half pixels: H(n) is n pixels, int(v) is Python's int() (truncation     *)
(* toward zero) of the stored value, giving whole pixels.  Sizes, tile     *)
(* coordinates and rectangles are whole pixels, as in the source.          *)
(***************************************************************************)
EXTENDS Integers, Sequences, FiniteSets, TLC

VARIABLES
    files,                \* the level*.json documents on disk, in load order
    state,                \* Game.state
    game_over,            \* Game.game_over
    levels,               \* Game.levels
    current_level_index,  \* Game.current_level_index (0-based)
    player,               \* Game.player (None before the first run)
    total_score,          \* Game.total_score
    ev,                   \* what the last step of the run loop did
    editor                \* the TileEditor's level data

vars == <<files, state, game_over, levels, current_level_index, player,
          total_score, ev, editor>>

None == "None"

\* ------------------------------------------------------------ constants
TILE_SIZE == 16
GRAVITY == 1            \* 0.5 pixel per tick, in half pixels
MAX_FALL_SPEED == 10
player_width == 14
player_height == 28
player_speed == 3
jump_strength == 10
max_health == 100
attack_duration == 10
attack_cooldown == 20
attack_damage == 25
attack_range == 35
START_X == 100
START_Y == 100
PLATFORM_TOLERANCE == 8
PLAYER_KNOCKBACK == 10
ENEMY_KNOCKBACK == 15
FLYING_RANGE == 300
DEFAULT_PATROL_RANGE == 100

\* ------------------------------------------------------------ numbers
H(n) == 2 * n

int(v) == IF v >= 0 THEN v \div 2 ELSE -((-v) \div 2)

Min(a, b) == IF a < b THEN a ELSE b
Max(a, b) == IF a > b THEN a ELSE b

\* ------------------------------------------------------------ rectangles
Rect(x, y, w, h) == [x |-> x, y |-> y, w |-> w, h |-> h]

colliderect(a, b) ==
    /\ a.w > 0 /\ a.h > 0 /\ b.w > 0 /\ b.h > 0
    /\ a.x < b.x + b.w
    /\ a.x + a.w > b.x
    /\ a.y < b.y + b.h
    /\ a.y + a.h > b.y

\* ------------------------------------------------------------ Python dicts
\* A dict is the sequence of its <<key, value>> pairs in insertion order.
DictKeys(d) == {d[i][1] : i \in 1..Len(d)}

DictHas(d, k) == \E i \in 1..Len(d) : d[i][1] = k

DictGet(d, k) ==
    IF DictHas(d, k)
    THEN d[CHOOSE i \in 1..Len(d) : d[i][1] = k][2]
    ELSE None

DictSet(d, k, v) ==
    IF DictHas(d, k)
    THEN [i \in 1..Len(d) |-> IF d[i][1] = k THEN <<k, v>> ELSE d[i]]
    ELSE Append(d, <<k, v>>)

DictDel(d, k) == SelectSeq(d, LAMBDA kv : kv[1] # k)

\* ------------------------------------------------------------ Level queries
\* level.tiles[layer] is the dict of that layer: pairs <<<<x, y>>, tile>>
\* with tile = [tile_type_id, layer].  The queries walk the layers in the
\* order background, main, foreground, each in insertion order.
TileRect(t) ==
    Rect(t[1][1] * TILE_SIZE, t[1][2] * TILE_SIZE, TILE_SIZE, TILE_SIZE)

TilesWithProperty(level, property) ==
    SelectSeq(level.tiles.background \o level.tiles.main \o level.tiles.foreground,
              LAMBDA t : /\ DictHas(level.tile_types, t[2].tile_type_id)
                         /\ property \in DictGet(level.tile_types,
                                                  t[2].tile_type_id).properties)

get_solid_tiles(level) == TilesWithProperty(level, "solid")
get_platform_tiles(level) == TilesWithProperty(level, "platform")
get_hazard_tiles(level) == TilesWithProperty(level, "hazard")
get_end_level_tiles(level) == TilesWithProperty(level, "end_level")
get_ladder_tiles(level) == TilesWithProperty(level, "ladder")

\* all_requirements_met that forgets the enemies.
all_requirements_met_collectibles(level) ==
    level.required_collectibles_collected >= level.required_collectibles_total

all_requirements_met(level) ==
    LET collectibles_done ==
            level.required_collectibles_collected >= level.required_collectibles_total
        enemies_done ==
            level.required_enemies_killed >= level.required_enemies_total
    IN  collectibles_done /\ enemies_done

\* ------------------------------------------------------------ Player
Player(x, y) ==
    [x |-> H(x), y |-> H(y), vel_x |-> 0, vel_y |-> 0,
     on_ground |-> FALSE, on_ladder |-> FALSE, climbing |-> FALSE,
     health |-> 100,
     attacking |-> FALSE, attack_timer |-> 0, attack_cooldown_timer |-> 0,
     facing_right |-> TRUE]

get_rect(p) == Rect(int(p.x), int(p.y), player_width, player_height)

get_attack_rect(p) ==
    IF ~p.attacking THEN Rect(0, 0, 0, 0)
    ELSE IF p.facing_right
         THEN Rect(int(p.x + H(player_width)), int(p.y), attack_range, player_height)
         ELSE Rect(int(p.x - H(attack_range)), int(p.y), attack_range, player_height)

\* start_attack that does not look at `attacking`.
start_attack_restart(p) ==
    IF p.attack_cooldown_timer <= 0
    THEN [p EXCEPT !.attacking = TRUE, !.attack_timer = attack_duration]
    ELSE p

\* start_attack that does not look at the cooldown.
start_attack_during_cooldown(p) ==
    IF ~p.attacking
    THEN [p EXCEPT !.attacking = TRUE, !.attack_timer = attack_duration]
    ELSE p

start_attack(p) ==
    IF p.attack_cooldown_timer <= 0 /\ ~p.attacking
    THEN [p EXCEPT !.attacking = TRUE, !.attack_timer = attack_duration]
    ELSE p

\* keys is [left, right, up, down]: K_LEFT or K_a, K_RIGHT or K_d, ...
\* horizontal_input that looks at the right key first.
horizontal_input_right_first(p, keys) ==
    IF keys.right
    THEN [p EXCEPT !.vel_x = H(player_speed), !.facing_right = TRUE,
                   !.climbing = FALSE]
    ELSE IF keys.left
    THEN [p EXCEPT !.vel_x = -H(player_speed), !.facing_right = FALSE,
                   !.climbing = FALSE]
    ELSE [p EXCEPT !.vel_x = 0]

horizontal_input(p, keys) ==
    IF keys.left
    THEN [p EXCEPT !.vel_x = -H(player_speed), !.facing_right = FALSE,
                   !.climbing = FALSE]
    ELSE IF keys.right
    THEN [p EXCEPT !.vel_x = H(player_speed), !.facing_right = TRUE,
                   !.climbing = FALSE]
    ELSE [p EXCEPT !.vel_x = 0]

climbing_input(p, keys) ==
    IF p.on_ladder
    THEN IF keys.up
         THEN [p EXCEPT !.climbing = TRUE, !.vel_y = -H(player_speed)]
         ELSE IF keys.down
         THEN [p EXCEPT !.climbing = TRUE, !.vel_y = H(player_speed)]
         ELSE IF p.climbing THEN [p EXCEPT !.vel_y = 0] ELSE p
    ELSE p

\* jump_input that does not look at on_ground.
jump_input_airborne(p, keys) ==
    IF keys.up /\ ~p.on_ladder
    THEN [p EXCEPT !.vel_y = -H(jump_strength), !.on_ground = FALSE]
    ELSE p

jump_input(p, keys) ==
    IF keys.up /\ p.on_ground /\ ~p.on_ladder
    THEN [p EXCEPT !.vel_y = -H(jump_strength), !.on_ground = FALSE]
    ELSE p

\* apply_gravity without the cap at MAX_FALL_SPEED.
apply_gravity_uncapped(p) ==
    IF ~p.climbing
    THEN [p EXCEPT !.vel_y = p.vel_y + GRAVITY]
    ELSE p

apply_gravity(p) ==
    IF ~p.climbing
    THEN LET v == p.vel_y + GRAVITY
         IN  [p EXCEPT !.vel_y = IF v > H(MAX_FALL_SPEED) THEN H(MAX_FALL_SPEED) ELSE v]
    ELSE p

RECURSIVE horizontal_solid_loop(_, _, _, _)
horizontal_solid_loop(p, player_rect, tiles, i) ==
    IF i > Len(tiles) THEN p
    ELSE LET tile_rect == TileRect(tiles[i])
             q == IF colliderect(player_rect, tile_rect)
                  THEN [p EXCEPT
                          !.x = IF p.vel_x > 0 THEN H(tile_rect.x - player_width)
                                ELSE IF p.vel_x < 0 THEN H(tile_rect.x + tile_rect.w)
                                ELSE @,
                          !.vel_x = 0]
                  ELSE p
         IN  horizontal_solid_loop(q, player_rect, tiles, i + 1)

handle_horizontal_collisions(p, level) ==
    horizontal_solid_loop(p, get_rect(p), get_solid_tiles(level), 1)

ladder_loop(p, player_rect, tiles) ==
    IF \E i \in 1..Len(tiles) : colliderect(player_rect, TileRect(tiles[i]))
    THEN [p EXCEPT !.on_ladder = TRUE]
    ELSE p

RECURSIVE vertical_solid_loop(_, _, _, _)
vertical_solid_loop(p, player_rect, tiles, i) ==
    IF i > Len(tiles) THEN p
    ELSE LET tile_rect == TileRect(tiles[i])
             q == IF colliderect(player_rect, tile_rect)
                  THEN IF p.vel_y > 0
                       THEN [p EXCEPT !.y = H(tile_rect.y - player_height),
                                      !.vel_y = 0, !.on_ground = TRUE,
                                      !.climbing = FALSE]
                       ELSE IF p.vel_y < 0
                       THEN [p EXCEPT !.y = H(tile_rect.y + tile_rect.h),
                                      !.vel_y = 0]
                       ELSE p
                  ELSE p
         IN  vertical_solid_loop(q, player_rect, tiles, i + 1)

\* platform_catch without the tolerance test.
platform_catch_any_depth(p, player_rect, tile_rect) ==
    /\ colliderect(player_rect, tile_rect)
    /\ p.vel_y > 0

platform_catch(p, player_rect, tile_rect) ==
    /\ colliderect(player_rect, tile_rect)
    /\ p.vel_y > 0
    /\ player_rect.y + player_rect.h <= tile_rect.y + PLATFORM_TOLERANCE

RECURSIVE platform_loop(_, _, _, _)
platform_loop(p, player_rect, tiles, i) ==
    IF i > Len(tiles) THEN p
    ELSE LET tile_rect == TileRect(tiles[i])
             q == IF platform_catch(p, player_rect, tile_rect)
                  THEN [p EXCEPT !.y = H(tile_rect.y - player_height),
                                 !.vel_y = 0, !.on_ground = TRUE,
                                 !.climbing = FALSE]
                  ELSE p
         IN  platform_loop(q, player_rect, tiles, i + 1)

handle_vertical_collisions(p, level) ==
    LET player_rect == get_rect(p)
        p0 == [p EXCEPT !.on_ground = FALSE, !.on_ladder = FALSE]
        p1 == ladder_loop(p0, player_rect, get_ladder_tiles(level))
        p2 == vertical_solid_loop(p1, player_rect, get_solid_tiles(level), 1)
    IN  platform_loop(p2, player_rect, get_platform_tiles(level), 1)

\* handle_level_boundaries that also holds the player at the bottom.
handle_level_boundaries_floor(p, level) ==
    LET max_x == H(level.width * TILE_SIZE - player_width)
        max_y == H(level.height * TILE_SIZE - player_height)
        p1 == [p EXCEPT !.x = Max(0, Min(p.x, max_x))]
        p2 == IF p1.y < 0 THEN [p1 EXCEPT !.y = 0, !.vel_y = 0]
              ELSE IF p1.y > max_y THEN [p1 EXCEPT !.y = max_y, !.vel_y = 0]
              ELSE p1
    IN  IF p2.x <= 0 \/ p2.x >= max_x THEN [p2 EXCEPT !.vel_x = 0] ELSE p2

handle_level_boundaries(p, level) ==
    LET max_x == H(level.width * TILE_SIZE - player_width)
        p1 == [p EXCEPT !.x = Max(0, Min(p.x, max_x))]
        p2 == IF p1.y < 0 THEN [p1 EXCEPT !.y = 0, !.vel_y = 0] ELSE p1
    IN  IF p2.x <= 0 \/ p2.x >= max_x THEN [p2 EXCEPT !.vel_x = 0] ELSE p2

RECURSIVE hazard_loop(_, _, _, _)
hazard_loop(p, player_rect, tiles, i) ==
    IF i > Len(tiles) THEN p
    ELSE LET q == IF colliderect(player_rect, TileRect(tiles[i]))
                  THEN [p EXCEPT !.health = IF p.health - 1 <= 0 THEN 0
                                            ELSE p.health - 1]
                  ELSE p
         IN  hazard_loop(q, player_rect, tiles, i + 1)

check_hazards(p, level) ==
    hazard_loop(p, get_rect(p), get_hazard_tiles(level), 1)

update_attack_timers(p) ==
    LET p1 == IF p.attacking
              THEN IF p.attack_timer - 1 <= 0
                   THEN [p EXCEPT !.attack_timer = @ - 1, !.attacking = FALSE,
                                  !.attack_cooldown_timer = attack_cooldown]
                   ELSE [p EXCEPT !.attack_timer = @ - 1]
              ELSE p
    IN  IF p1.attack_cooldown_timer > 0
        THEN [p1 EXCEPT !.attack_cooldown_timer = @ - 1]
        ELSE p1

\* The player as Player.update hands it to handle_vertical_collisions.
before_vertical(p, keys, level) ==
    LET p1 == apply_gravity(jump_input(climbing_input(horizontal_input(p, keys), keys), keys))
        p2 == handle_horizontal_collisions([p1 EXCEPT !.x = @ + p1.vel_x], level)
    IN  [p2 EXCEPT !.y = @ + p2.vel_y]

Player_update(p, keys, level) ==
    LET p3 == handle_vertical_collisions(before_vertical(p, keys, level), level)
        p4 == handle_level_boundaries(p3, level)
        p5 == check_hazards(p4, level)
    IN  update_attack_timers(p5)

\* ------------------------------------------------------------ Enemy
\* An enemy type's speed is kept in half pixels per tick (3 is 1.5 pixels).
Enemy(x, y, enemy_type, patrol_range) ==
    [x |-> H(x), y |-> H(y), enemy_type |-> enemy_type.id,
     patrol_range |-> patrol_range, health |-> enemy_type.health,
     vel_x |-> 0, vel_y |-> 0, direction |-> 1, start_x |-> x, alive |-> TRUE]

Enemy_get_rect(e) == Rect(int(e.x), int(e.y), TILE_SIZE, TILE_SIZE)

RECURSIVE enemy_ground_loop(_, _, _)
enemy_ground_loop(e, tiles, i) ==
    IF i > Len(tiles) THEN e
    ELSE LET tile_rect == TileRect(tiles[i])
             enemy_rect == Enemy_get_rect(e)
             q == IF colliderect(enemy_rect, tile_rect) /\ e.vel_y > 0
                  THEN [e EXCEPT !.y = H(tile_rect.y - TILE_SIZE), !.vel_y = 0]
                  ELSE e
         IN  enemy_ground_loop(q, tiles, i + 1)

patrol(e, etype, level) ==
    LET e1 == [e EXCEPT !.vel_x = etype.speed * e.direction]
        e2 == IF e1.x >= H(e1.start_x + e1.patrol_range)
              THEN [e1 EXCEPT !.direction = -1]
              ELSE IF e1.x <= H(e1.start_x - e1.patrol_range)
              THEN [e1 EXCEPT !.direction = 1]
              ELSE e1
        e3 == [e2 EXCEPT !.x = @ + e2.vel_x]
        v  == e3.vel_y + GRAVITY
        e4 == [e3 EXCEPT !.vel_y = IF v > H(MAX_FALL_SPEED) THEN H(MAX_FALL_SPEED) ELSE v]
        e5 == [e4 EXCEPT !.y = @ + e4.vel_y]
    IN  enemy_ground_loop(e5, get_solid_tiles(level), 1)

Abs(n) == IF n < 0 THEN -n ELSE n

TruncDiv(a, b) == IF a >= 0 THEN a \div b ELSE -((-a) \div b)

\* The chase and flying branches of Enemy.update; range = 0: no aggro
\* radius (chase).  Fixed point: the square root and the quotients
\* (dx / distance) * speed are cut to the half-pixel grid; exact when the
\* enemy and the player are aligned on an axis.
chase(e, etype, p, range) ==
    LET dx == p.x - e.x
        dy == p.y - e.y
        d2 == dx * dx + dy * dy
        distance == IF dx = 0 THEN Abs(dy) ELSE IF dy = 0 THEN Abs(dx)
                    ELSE CHOOSE r \in 0..(Abs(dx) + Abs(dy)) :
                             r * r <= d2 /\ (r + 1) * (r + 1) > d2
    IN  IF d2 > 0 /\ (range = 0 \/ d2 < H(range) * H(range))
        THEN LET vx == TruncDiv(dx * etype.speed, distance)
                 vy == TruncDiv(dy * etype.speed, distance)
             IN  [e EXCEPT !.vel_x = vx, !.vel_y = vy, !.x = @ + vx, !.y = @ + vy]
        ELSE e

\* Enemy.update without the early return of a dead enemy.
Enemy_update_dead_too(e, p, level) ==
    LET etype == DictGet(level.enemy_types, e.enemy_type)
    IN  IF etype.ai_type = "stationary" THEN e
        ELSE IF etype.ai_type = "patrol" THEN patrol(e, etype, level)
        ELSE IF etype.ai_type = "chase" THEN chase(e, etype, p, 0)
        ELSE IF etype.ai_type = "flying" THEN chase(e, etype, p, FLYING_RANGE)
        ELSE e

Enemy_update(e, p, level) ==
    LET etype == DictGet(level.enemy_types, e.enemy_type)
    IN  IF ~e.alive THEN e
        ELSE IF etype.ai_type = "stationary" THEN e
        ELSE IF etype.ai_type = "patrol" THEN patrol(e, etype, level)
        ELSE IF etype.ai_type = "chase" THEN chase(e, etype, p, 0)
        ELSE IF etype.ai_type = "flying" THEN chase(e, etype, p, FLYING_RANGE)
        ELSE e

take_damage(e, amount) ==
    LET h == e.health - amount
    IN  IF h <= 0 THEN [e EXCEPT !.health = h, !.alive = FALSE]
        ELSE [e EXCEPT !.health = h]

\* ------------------------------------------------------------ Collectible
Collectible(x, y, collectible_type) ==
    [x |-> x, y |-> y, collectible_type |-> collectible_type.id, collected |-> FALSE]

Collectible_get_rect(c) == Rect(c.x, c.y, TILE_SIZE, TILE_SIZE)

\* ------------------------------------------------------------ JSON keys
\* A string is the sequence of its characters.  json.dump writes an int key
\* as its decimal string; the editor writes a tile position as f"{x},{y}".
DigitChar == <<"0", "1", "2", "3", "4", "5", "6", "7", "8", "9">>

RECURSIVE NatStr(_)
NatStr(n) ==
    IF n < 10 THEN <<DigitChar[n + 1]>>
    ELSE Append(NatStr(n \div 10), DigitChar[(n % 10) + 1])

str(n) == IF n < 0 THEN <<"-">> \o NatStr(-n) ELSE NatStr(n)

DigitValue(c) == (CHOOSE i \in 1..10 : DigitChar[i] = c) - 1

RECURSIVE NatOfStr(_)
NatOfStr(s) ==
    IF Len(s) = 1 THEN DigitValue(s[1])
    ELSE 10 * NatOfStr(SubSeq(s, 1, Len(s) - 1)) + DigitValue(s[Len(s)])

int_of_str(s) == IF s[1] = "-" THEN -NatOfStr(Tail(s)) ELSE NatOfStr(s)

pos_str(x, y) == str(x) \o <<",">> \o str(y)

\* x, y = map(int, pos_str.split(','))
split_pos(s) ==
    LET c == CHOOSE i \in 1..Len(s) : s[i] = ","
    IN  <<int_of_str(SubSeq(s, 1, c - 1)), int_of_str(SubSeq(s, c + 1, Len(s)))>>

\* ------------------------------------------------------------ Level
\* Level.__init__ before load_level.
EmptyLevel ==
    [width |-> 0, height |-> 0,
     tile_types |-> <<>>,
     tiles |-> [background |-> <<>>, main |-> <<>>, foreground |-> <<>>],
     enemy_types |-> <<>>, enemies |-> <<>>,
     collectible_types |-> <<>>, collectibles |-> <<>>,
     score |-> 0, keys_collected |-> 0,
     required_collectibles_total |-> 0, required_collectibles_collected |-> 0,
     required_enemies_total |-> 0, required_enemies_killed |-> 0]

\* data.get(key, default) on a JSON object
get_default(data, key, default) ==
    IF key \in DOMAIN data THEN data[key] ELSE default

load_tile_types(data) ==
    [i \in 1..Len(data.tile_types) |->
        LET tid == int_of_str(data.tile_types[i][1])
            ttype_data == data.tile_types[i][2]
        IN  <<tid, [id |-> tid, properties |-> ttype_data.properties]>>]

load_layer(tiles_data) ==
    [i \in 1..Len(tiles_data) |->
        <<split_pos(tiles_data[i][1]),
          [tile_type_id |-> tiles_data[i][2].tile_type_id,
           layer |-> tiles_data[i][2].layer]>>]

load_tiles(data) ==
    [layer \in {"background", "main", "foreground"} |->
        IF DictHas(data.layers, layer)
        THEN load_layer(DictGet(data.layers, layer))
        ELSE <<>>]

load_enemy_types(data) ==
    IF "enemy_types" \in DOMAIN data
    THEN [i \in 1..Len(data.enemy_types) |->
            LET eid == int_of_str(data.enemy_types[i][1])
                etype_data == data.enemy_types[i][2]
            IN  <<eid, [id |-> eid,
                        ai_type |-> etype_data.ai_type,
                        health |-> etype_data.health,
                        damage |-> etype_data.damage,
                        speed |-> etype_data.speed,
                        required |-> get_default(etype_data, "required", FALSE)]>>]
    ELSE <<>>

\* load_enemies that counts every placed enemy as required.
RECURSIVE load_enemies_count_all(_, _, _)
load_enemies_count_all(level, enemies_data, i) ==
    IF i > Len(enemies_data) THEN level
    ELSE LET enemy_data == enemies_data[i]
             enemy_type == DictGet(level.enemy_types, enemy_data.enemy_type_id)
             next == IF DictHas(level.enemy_types, enemy_data.enemy_type_id)
                     THEN [level EXCEPT
                            !.enemies = Append(@,
                                Enemy(enemy_data.x, enemy_data.y, enemy_type,
                                      get_default(enemy_data, "patrol_range",
                                                  DEFAULT_PATROL_RANGE))),
                            !.required_enemies_total = @ + 1]
                     ELSE level
         IN  load_enemies_count_all(next, enemies_data, i + 1)

RECURSIVE load_enemies(_, _, _)
load_enemies(level, enemies_data, i) ==
    IF i > Len(enemies_data) THEN level
    ELSE LET enemy_data == enemies_data[i]
             enemy_type == DictGet(level.enemy_types, enemy_data.enemy_type_id)
             next == IF DictHas(level.enemy_types, enemy_data.enemy_type_id)
                     THEN [level EXCEPT
                            !.enemies = Append(@,
                                Enemy(enemy_data.x, enemy_data.y, enemy_type,
                                      get_default(enemy_data, "patrol_range",
                                                  DEFAULT_PATROL_RANGE))),
                            !.required_enemies_total =
                                IF enemy_type.required THEN @ + 1 ELSE @]
                     ELSE level
         IN  load_enemies(next, enemies_data, i + 1)

load_collectible_types(data) ==
    IF "collectible_types" \in DOMAIN data
    THEN [i \in 1..Len(data.collectible_types) |->
            LET cid == int_of_str(data.collectible_types[i][1])
                ctype_data == data.collectible_types[i][2]
            IN  <<cid, [id |-> cid,
                        effect |-> ctype_data.effect,
                        value |-> ctype_data.value,
                        required |-> get_default(ctype_data, "required", FALSE)]>>]
    ELSE <<>>

RECURSIVE load_collectibles(_, _, _)
load_collectibles(level, collectibles_data, i) ==
    IF i > Len(collectibles_data) THEN level
    ELSE LET collectible_data == collectibles_data[i]
             collectible_type ==
                 DictGet(level.collectible_types, collectible_data.collectible_type_id)
             next == IF DictHas(level.collectible_types,
                                collectible_data.collectible_type_id)
                     THEN [level EXCEPT
                            !.collectibles = Append(@,
                                Collectible(collectible_data.x, collectible_data.y,
                                            collectible_type)),
                            !.required_collectibles_total =
                                IF collectible_type.required THEN @ + 1 ELSE @]
                     ELSE level
         IN  load_collectibles(next, collectibles_data, i + 1)

load_level(data) ==
    LET l1 == [EmptyLevel EXCEPT !.width = data.width, !.height = data.height,
                                 !.tile_types = load_tile_types(data),
                                 !.tiles = load_tiles(data),
                                 !.enemy_types = load_enemy_types(data)]
        l2 == IF "enemies" \in DOMAIN data THEN load_enemies(l1, data.enemies, 1) ELSE l1
        l3 == [l2 EXCEPT !.collectible_types = load_collectible_types(data)]
    IN  IF "collectibles" \in DOMAIN data
        THEN load_collectibles(l3, data.collectibles, 1)
        ELSE l3

\* The exceptions load_level raises on a document: a missing structural
\* key (KeyError) or a layer name that Level.tiles does not hold.
load_raises(data) ==
    \/ ~({"width", "height", "tile_types", "layers"} \subseteq DOMAIN data)
    \/ ~(DictKeys(data.layers) \subseteq {"background", "main", "foreground"})

\* Level(str(filepath)) for each file, skipping the ones that raise.
load_all_levels(level_files) ==
    LET ok == SelectSeq(level_files, LAMBDA data : ~load_raises(data))
    IN  [i \in 1..Len(ok) |-> load_level(ok[i])]

\* ------------------------------------------------------------ Game
\* A Game is [state, game_over, levels, current_level_index, player,
\* total_score]; Game.level is levels[current_level_index].
Self ==
    [state |-> state, game_over |-> game_over, levels |-> levels,
     current_level_index |-> current_level_index, player |-> player,
     total_score |-> total_score]

level_of(g) == g.levels[g.current_level_index + 1]

with_level(g, lv) == [g EXCEPT !.levels[g.current_level_index + 1] = lv]

start_run(g, level_files) ==
    LET loaded == load_all_levels(level_files)
        g1 == [g EXCEPT !.levels = loaded, !.current_level_index = 0]
    IN  IF Len(loaded) = 0
        THEN [g1 EXCEPT !.state = "title"]
        ELSE [g1 EXCEPT !.player = Player(START_X, START_Y),
                        !.game_over = FALSE, !.total_score = 0,
                        !.state = "playing"]

update_enemies(g) ==
    LET lv == level_of(g)
    IN  with_level(g, [lv EXCEPT !.enemies =
            [i \in 1..Len(lv.enemies) |-> Enemy_update(lv.enemies[i], g.player, lv)]])

RECURSIVE enemy_collision_loop(_, _, _, _, _)
enemy_collision_loop(p, player_rect, lv, enemies, i) ==
    IF i > Len(enemies) THEN p
    ELSE LET enemy == enemies[i]
             damage == DictGet(lv.enemy_types, enemy.enemy_type).damage
             q == IF enemy.alive /\ colliderect(player_rect, Enemy_get_rect(enemy))
                  THEN [p EXCEPT
                          !.health = IF p.health - damage < 0 THEN 0
                                     ELSE p.health - damage,
                          !.x = IF p.x - enemy.x > 0 THEN @ + H(PLAYER_KNOCKBACK)
                                ELSE @ - H(PLAYER_KNOCKBACK)]
                  ELSE p
         IN  enemy_collision_loop(q, player_rect, lv, enemies, i + 1)

check_enemy_collisions(g) ==
    [g EXCEPT !.player = enemy_collision_loop(g.player, get_rect(g.player),
                                              level_of(g), level_of(g).enemies, 1)]

\* apply_effect without the cap at max_health.
apply_effect_uncapped(g, ctype) ==
    LET lv == level_of(g)
    IN  IF ctype.effect = "health"
        THEN [g EXCEPT !.player.health = g.player.health + ctype.value]
        ELSE IF ctype.effect = "score"
        THEN with_level(g, [lv EXCEPT !.score = @ + ctype.value])
        ELSE IF ctype.effect = "key"
        THEN with_level(g, [lv EXCEPT !.keys_collected = @ + ctype.value])
        ELSE g

apply_effect(g, ctype) ==
    LET lv == level_of(g)
    IN  IF ctype.effect = "health"
        THEN [g EXCEPT !.player.health = Min(max_health, g.player.health + ctype.value)]
        ELSE IF ctype.effect = "score"
        THEN with_level(g, [lv EXCEPT !.score = @ + ctype.value])
        ELSE IF ctype.effect = "key"
        THEN with_level(g, [lv EXCEPT !.keys_collected = @ + ctype.value])
        ELSE g

\* collect that does not mark the instance collected.
collect_unmarked(g, i) ==
    LET lv == level_of(g)
        ctype == DictGet(lv.collectible_types, lv.collectibles[i].collectible_type)
        lv1 == [lv EXCEPT !.required_collectibles_collected =
                              IF ctype.required THEN @ + 1 ELSE @]
    IN  apply_effect(with_level(g, lv1), ctype)

collect(g, i) ==
    LET lv == level_of(g)
        ctype == DictGet(lv.collectible_types, lv.collectibles[i].collectible_type)
        lv1 == [lv EXCEPT !.collectibles[i].collected = TRUE,
                          !.required_collectibles_collected =
                              IF ctype.required THEN @ + 1 ELSE @]
    IN  apply_effect(with_level(g, lv1), ctype)

\* collectible_loop that does not skip the collected instances.
RECURSIVE collectible_loop_collected_too(_, _, _)
collectible_loop_collected_too(g, player_rect, i) ==
    IF i > Len(level_of(g).collectibles) THEN g
    ELSE LET collectible == level_of(g).collectibles[i]
             g1 == IF colliderect(player_rect, Collectible_get_rect(collectible))
                   THEN collect(g, i)
                   ELSE g
         IN  collectible_loop_collected_too(g1, player_rect, i + 1)

RECURSIVE collectible_loop(_, _, _)
collectible_loop(g, player_rect, i) ==
    IF i > Len(level_of(g).collectibles) THEN g
    ELSE LET collectible == level_of(g).collectibles[i]
             g1 == IF ~collectible.collected
                      /\ colliderect(player_rect, Collectible_get_rect(collectible))
                   THEN collect(g, i)
                   ELSE g
         IN  collectible_loop(g1, player_rect, i + 1)

check_collectible_collisions(g) == collectible_loop(g, get_rect(g.player), 1)

\* attack_target that takes the last overlapping enemy of the list.
attack_target_last(attack_rect, enemies) ==
    LET hits == {i \in 1..Len(enemies) :
                    enemies[i].alive /\ colliderect(attack_rect, Enemy_get_rect(enemies[i]))}
    IN  IF hits = {} THEN 0 ELSE CHOOSE i \in hits : \A j \in hits : i >= j

\* The index of the enemy the attack hits: the first alive enemy, in list
\* order, whose box overlaps the attack box (0: none).
attack_target(attack_rect, enemies) ==
    LET hits == {i \in 1..Len(enemies) :
                    enemies[i].alive /\ colliderect(attack_rect, Enemy_get_rect(enemies[i]))}
    IN  IF hits = {} THEN 0 ELSE CHOOSE i \in hits : \A j \in hits : i <= j

\* hit_enemy that counts every kill, required or not.
hit_enemy_any_kill(g, i) ==
    LET lv == level_of(g)
        enemy == lv.enemies[i]
        was_alive == enemy.alive
        e1 == take_damage(enemy, attack_damage)
        e2 == [e1 EXCEPT !.x = IF g.player.facing_right THEN @ + H(ENEMY_KNOCKBACK)
                               ELSE @ - H(ENEMY_KNOCKBACK)]
    IN  with_level(g, [lv EXCEPT
            !.enemies[i] = e2,
            !.required_enemies_killed =
                IF was_alive /\ ~e1.alive THEN @ + 1 ELSE @])

hit_enemy(g, i) ==
    LET lv == level_of(g)
        enemy == lv.enemies[i]
        was_alive == enemy.alive
        was_required == DictGet(lv.enemy_types, enemy.enemy_type).required
        e1 == take_damage(enemy, attack_damage)
        e2 == [e1 EXCEPT !.x = IF g.player.facing_right THEN @ + H(ENEMY_KNOCKBACK)
                               ELSE @ - H(ENEMY_KNOCKBACK)]
    IN  with_level(g, [lv EXCEPT
            !.enemies[i] = e2,
            !.required_enemies_killed =
                IF was_alive /\ was_required /\ ~e1.alive THEN @ + 1 ELSE @])

check_player_attack_collisions(g) ==
    IF ~g.player.attacking THEN g
    ELSE LET i == attack_target(get_attack_rect(g.player), level_of(g).enemies)
         IN  IF i = 0 THEN g ELSE hit_enemy(g, i)

check_end_level_collision(g) ==
    /\ all_requirements_met(level_of(g))
    /\ LET player_rect == get_rect(g.player)
           end_level_tiles == get_end_level_tiles(level_of(g))
       IN  \E i \in 1..Len(end_level_tiles) :
               colliderect(player_rect, TileRect(end_level_tiles[i]))

\* advance_level that also restores the player's health.
advance_level_full_health(g) ==
    LET g1 == [g EXCEPT !.total_score = @ + level_of(g).score]
        next_level_index == g.current_level_index + 1
    IN  IF next_level_index < Len(g.levels)
        THEN [g1 EXCEPT !.current_level_index = next_level_index,
                        !.player.x = H(START_X), !.player.y = H(START_Y),
                        !.player.health = max_health]
        ELSE [g1 EXCEPT !.state = "title"]

advance_level(g) ==
    LET g1 == [g EXCEPT !.total_score = @ + level_of(g).score]
        next_level_index == g.current_level_index + 1
    IN  IF next_level_index < Len(g.levels)
        THEN [g1 EXCEPT !.current_level_index = next_level_index,
                        !.player.x = H(START_X), !.player.y = H(START_Y)]
        ELSE [g1 EXCEPT !.state = "title"]

\* check_player_death that takes a player for dead only below zero health.
check_player_death_below_zero(g) ==
    LET final_score == g.total_score + level_of(g).score
        level_bottom == H(level_of(g).height * TILE_SIZE)
    IN  IF g.player.health < 0
        THEN [g EXCEPT !.game_over = TRUE, !.total_score = final_score]
        ELSE IF g.player.y > level_bottom
        THEN [g EXCEPT !.game_over = TRUE, !.player.health = 0,
                       !.total_score = final_score]
        ELSE g

check_player_death(g) ==
    LET final_score == g.total_score + level_of(g).score
        level_bottom == H(level_of(g).height * TILE_SIZE)
    IN  IF g.player.health <= 0
        THEN [g EXCEPT !.game_over = TRUE, !.total_score = final_score]
        ELSE IF g.player.y > level_bottom
        THEN [g EXCEPT !.game_over = TRUE, !.player.health = 0,
                       !.total_score = final_score]
        ELSE g

\* The player, the enemies and the three collision checks of one pass of
\* the PLAYING branch of Game.run, in order.
after_player(g, keys) == [g EXCEPT !.player = Player_update(g.player, keys, level_of(g))]
after_contact(g) == check_enemy_collisions(update_enemies(g))
after_collect(g) == check_collectible_collisions(g)
after_attack(g) == check_player_attack_collisions(g)

\* ------------------------------------------------------------ level files
\* The documents below are what tile_editor.py's save_level writes (the
\* fields the game reads).  Tile types 0..5 are the editor's placeholder
\* types; 6 and 7 are types added in the editor.
TileTypeTable ==
    <<<<str(0), [properties |-> {"solid"}]>>,
      <<str(1), [properties |-> {"platform"}]>>,
      <<str(2), [properties |-> {"hazard", "solid"}]>>,
      <<str(3), [properties |-> {"background"}]>>,
      <<str(4), [properties |-> {"ladder"}]>>,
      <<str(5), [properties |-> {"breakable", "solid"}]>>,
      <<str(6), [properties |-> {"end_level"}]>>,
      <<str(7), [properties |-> {"hazard"}]>>>>

\* The tiles of type id placed in `layer` at row y, columns x1..x2.
Row(layer, id, y, x1, x2) ==
    [i \in 1..(x2 - x1 + 1) |->
        <<pos_str(x1 + i - 1, y), [tile_type_id |-> id, layer |-> layer]>>]

EnemyTypeTable ==
    <<<<str(0), [ai_type |-> "stationary", health |-> 20, damage |-> 30, speed |-> 0,
                 required |-> TRUE]>>,
      <<str(1), [ai_type |-> "stationary", health |-> 50, damage |-> 45, speed |-> 0]>>,
      <<str(2), [ai_type |-> "patrol", health |-> 25, damage |-> 30, speed |-> 4,
                 required |-> TRUE]>>,
      <<str(3), [ai_type |-> "stationary", health |-> 20, damage |-> 15, speed |-> 0,
                 required |-> FALSE]>>,
      <<str(4), [ai_type |-> "stationary", health |-> 20, damage |-> 15, speed |-> 4,
                 required |-> FALSE,
                 behavior_script |-> "example_sinewave_enemy.py"]>>>>

CollectibleTypeTable ==
    <<<<str(0), [effect |-> "health", value |-> 20, required |-> FALSE]>>,
      <<str(1), [effect |-> "score", value |-> 100, required |-> TRUE]>>,
      <<str(2), [effect |-> "key", value |-> 1, required |-> FALSE]>>,
      <<str(3), [effect |-> "powerup", value |-> 1, required |-> FALSE]>>>>

LevelDoc(w, h, background, main, foreground, enemies, collectibles) ==
    [width |-> w, height |-> h,
     tile_types |-> TileTypeTable,
     layers |-> <<<<"background", background>>, <<"main", main>>,
                  <<"foreground", foreground>>>>,
     enemy_types |-> EnemyTypeTable,
     enemies |-> enemies,
     collectible_types |-> CollectibleTypeTable,
     collectibles |-> collectibles]

\* ------------------------------------------------------------ run loop
Becomes(g) ==
    /\ state' = g.state
    /\ game_over' = g.game_over
    /\ levels' = g.levels
    /\ current_level_index' = g.current_level_index
    /\ player' = g.player
    /\ total_score' = g.total_score

\* Game.__init__, in a directory that holds one of the level sets D.
GameInit(D) ==
    /\ files \in D
    /\ state = "title"
    /\ game_over = FALSE
    /\ levels = <<>>
    /\ current_level_index = 0
    /\ player = None
    /\ total_score = 0
    /\ ev = [kind |-> "init"]
    /\ editor = None

\* The title screen's "Start Run".
StartRun ==
    /\ state = "title"
    /\ \E g \in {start_run(Self, files)} : Becomes(g)
    /\ ev' = [kind |-> "start_run"]
    /\ UNCHANGED <<files, editor>>

\* KEYDOWN K_ESCAPE while PLAYING.
KeyEscape ==
    /\ state = "playing"
    /\ state' = "title"
    /\ ev' = [kind |-> "escape"]
    /\ UNCHANGED <<files, game_over, levels, current_level_index, player,
                   total_score, editor>>

\* KEYDOWN K_SPACE while PLAYING.
KeySpace ==
    /\ state = "playing"
    /\ player' = IF ~game_over THEN start_attack(player) ELSE player
    /\ ev' = [kind |-> "space"]
    /\ UNCHANGED <<files, state, game_over, levels, current_level_index,
                   total_score, editor>>

\* KEYDOWN K_RETURN while PLAYING.
KeyReturn ==
    /\ state = "playing"
    /\ state' = IF game_over THEN "title" ELSE state
    /\ ev' = [kind |-> "return"]
    /\ UNCHANGED <<files, game_over, levels, current_level_index, player,
                   total_score, editor>>

\* What a pass leaves in ev: the keys held, the player handed to and
\* returned by handle_vertical_collisions, the enemies and the attack box
\* as check_player_attack_collisions found them, the enemy it hit (0: none),
\* whether advance_level was called, from which level, and the player, the
\* total and the level's score as check_end_level_collision found them.
TickEvent(g, keys, g3, g5) ==
    LET vin == before_vertical(g.player, keys, level_of(g))
    IN  [kind |-> "tick", keys |-> keys,
         vin |-> vin, vout |-> handle_vertical_collisions(vin, level_of(g)),
         enemies |-> level_of(g3).enemies,
         attack_rect |-> get_attack_rect(g3.player),
         hit |-> IF g3.player.attacking
                 THEN attack_target(get_attack_rect(g3.player), level_of(g3).enemies)
                 ELSE 0,
         advanced |-> check_end_level_collision(g5),
         level_index |-> g.current_level_index,
         body |-> Player_update(g.player, keys, level_of(g)),
         hurt |-> after_contact(after_player(g, keys)).player,
         at_end |-> [player |-> g5.player, total_score |-> g5.total_score,
                     score |-> level_of(g5).score]]

\* One pass of Game.run's PLAYING branch with the keys held.
Tick(keys) ==
    /\ state = "playing"
    /\ ~game_over
    /\ \E g1 \in {after_player(Self, keys)} :
       \E g2 \in {after_contact(g1)} :
       \E g3 \in {after_collect(g2)} :
       \E g4 \in {after_attack(g3)} :
       \E g5 \in {check_player_death(g4)} :
       \E g6 \in {IF check_end_level_collision(g5) THEN advance_level(g5) ELSE g5} :
          /\ Becomes(g6)
          /\ ev' = TickEvent(Self, keys, g3, g5)
    /\ UNCHANGED <<files, editor>>

TickWith(K) == \E keys \in K : Tick(keys)

\* ------------------------------------------------- health (C1, C6, C7)
\* Held keys of a player that only walks.
WalkKeys ==
    {[left |-> l, right |-> r, up |-> FALSE, down |-> FALSE] :
        l \in BOOLEAN, r \in BOOLEAN}
    \ {[left |-> TRUE, right |-> TRUE, up |-> FALSE, down |-> FALSE]}

NoKeys == [left |-> FALSE, right |-> FALSE, up |-> FALSE, down |-> FALSE]

\* A pit around the start position (floor at row 8, walls at columns 4
\* and 9) with a health potion at its left end and, at its right end, an
\* enemy standing in a hazard tile.
HealthRoom ==
    LevelDoc(12, 10,
        <<>>,
        Row("main", 0, 8, 4, 9) \o Row("main", 0, 6, 4, 4) \o Row("main", 0, 7, 4, 4)
            \o Row("main", 0, 6, 9, 9) \o Row("main", 0, 7, 9, 9),
        Row("foreground", 7, 7, 8, 8),
        <<[x |-> 128, y |-> 112, enemy_type_id |-> 3, patrol_range |-> 100]>>,
        <<[x |-> 80, y |-> 112, collectible_type_id |-> 0]>>)

\* A pit two tiles wide whose only content is one hazard tile that is
\* not solid.
HazardLevel ==
    LevelDoc(12, 10,
        <<>>,
        Row("main", 0, 8, 5, 8) \o Row("main", 0, 6, 5, 5) \o Row("main", 0, 7, 5, 5)
            \o Row("main", 0, 6, 8, 8) \o Row("main", 0, 7, 8, 8),
        Row("foreground", 7, 7, 6, 6),
        <<>>,
        <<>>)

NextWalk ==
    \/ StartRun
    \/ KeyEscape
    \/ KeyReturn
    \/ TickWith(WalkKeys)

SpecHealth == GameInit({<<HealthRoom>>}) /\ [][NextWalk]_vars

SpecHazard == GameInit({<<HazardLevel>>}) /\ [][NextWalk]_vars

\* C1: at the end of every pass of the playing loop the player's health
\* is at least 0 and at most max_health, whatever hazard contacts, enemy
\* contacts and pickups came before.
C1_HealthInRange ==
    ev.kind = "tick" => player.health >= 0 /\ player.health <= max_health

\* A pass that began with a hurt player, picked up the potion and ended
\* at exactly max_health.
C1_Witness ==
    /\ ev.kind = "tick"
    /\ ev.vin.health < max_health
    /\ ev.vin.health + 20 > max_health
    /\ level_of(Self).collectibles[1].collected
    /\ player.health = max_health

\* C6: in a pass in which the player's box overlaps the (one) hazard tile
\* and no enemy or collectible is involved, health drops by exactly 1 and
\* stops at 0, and game_over is set in that pass exactly when health has
\* reached 0: from health 5 the five passes end at 4, 3, 2, 1, 0 with
\* game_over set in the fifth and not before.
C6_HazardStep ==
    LET hazards == get_hazard_tiles(level_of(Self))
        touching == \E i \in 1..Len(hazards) :
                        colliderect(get_rect(player'), TileRect(hazards[i]))
    IN  (ev'.kind = "tick" /\ player.health >= 1 /\ touching)
            => /\ player'.health = player.health - 1
               /\ player'.health >= 0
               /\ game_over' = (player'.health = 0)

C6_HazardCountdown == [][C6_HazardStep]_vars

\* The fifth pass of the countdown: it began at health 1 and ended at 0
\* with game_over set.
C6_Witness ==
    /\ ev.kind = "tick"
    /\ ev.vin.health = 1
    /\ player.health = 0
    /\ game_over
    /\ Len(level_of(Self).enemies) = 0
    /\ Len(level_of(Self).collectibles) = 0

\* C7: a player standing at rest (vel_y = 0, no key held) with its bottom
\* edge flush on the top edge of a solid tile below it ends one pass with
\* vel_y = 0 and on_ground true.
C7_AtRest ==
    LET solids == get_solid_tiles(level_of(Self))
        r == get_rect(player)
    IN  /\ state = "playing"
        /\ player.vel_y = 0
        /\ player.on_ground
        /\ player.y = H(r.y)
        /\ \E i \in 1..Len(solids) :
              LET t == TileRect(solids[i])
              IN  /\ t.y = r.y + r.h
                  /\ t.x < r.x + r.w
                  /\ r.x < t.x + t.w

C7_Step ==
    (C7_AtRest /\ ev'.kind = "tick" /\ ev'.keys = NoKeys)
        => player'.vel_y = 0 /\ player'.on_ground

C7_RestOnSolid == [][C7_Step]_vars

\* ------------------------------------------------- quests (C2 .. C5)
\* Held keys of a player that stands or walks left.
LeftKeys == {[left |-> l, right |-> FALSE, up |-> FALSE, down |-> FALSE] : l \in BOOLEAN}

\* A ledge with a wall at column 4 and an exit tile (background layer,
\* column 6) under the start position.  Two required coins lie at x = 96
\* and x = 80; two enemies stand together at x = 64, of the types in
\* `order`: type 0 is required and dies of one hit, type 1 is not required
\* and takes two.
QuestLevel(order) ==
    LevelDoc(12, 10,
        Row("background", 6, 7, 6, 6),
        Row("main", 0, 8, 4, 7) \o Row("main", 0, 6, 4, 4) \o Row("main", 0, 7, 4, 4),
        <<>>,
        [i \in 1..2 |-> [x |-> 64, y |-> 112, enemy_type_id |-> order[i],
                         patrol_range |-> 100]],
        <<[x |-> 96, y |-> 112, collectible_type_id |-> 1],
          [x |-> 80, y |-> 112, collectible_type_id |-> 1]>>)

\* A last level with nothing required and an exit tile at the start.
ExitLevel ==
    LevelDoc(12, 10,
        <<>>,
        Row("main", 0, 8, 5, 7) \o Row("main", 6, 7, 6, 6),
        <<>>,
        <<>>,
        <<>>)

NextQuest ==
    \/ StartRun
    \/ KeyEscape
    \/ KeySpace
    \/ KeyReturn
    \/ TickWith(LeftKeys)

SpecQuest ==
    /\ GameInit({<<QuestLevel(<<0, 1>>), ExitLevel>>, <<QuestLevel(<<1, 0>>), ExitLevel>>})
    /\ [][NextQuest]_vars

\* The level a pass is played in, before and after the pass.
LevelBefore == levels[current_level_index + 1]
LevelAfter == levels'[current_level_index + 1]

\* The pass called advance_level: the run moved to the next level or, after
\* the last one, back to the title screen.
LeftLevel == current_level_index' # current_level_index \/ state' = "title"

\* C2: a pass never completes the level while a required-enemy or a
\* required-collectible counter is below its total, even with the player
\* on an exit tile; and a pass that ends with both counters at their
\* totals and the player on an exit tile does complete it, so completion
\* happens in the very pass in which the last requirement is met there.
C2_Step ==
    ev'.kind = "tick" =>
        LET lv == LevelAfter
            met == /\ lv.required_enemies_killed >= lv.required_enemies_total
                   /\ lv.required_collectibles_collected >= lv.required_collectibles_total
            exits == get_end_level_tiles(lv)
            on_exit == \E i \in 1..Len(exits) :
                          colliderect(get_rect(player'), TileRect(exits[i]))
        IN  /\ LeftLevel => met
            /\ (~LeftLevel /\ on_exit) => ~met

C2_ExitGating == [][C2_Step]_vars

\* A pass that killed the last required enemy with the player on the exit
\* tile, and completed the level.
C2_Witness ==
    /\ ev.kind = "tick"
    /\ ev.level_index = 0
    /\ current_level_index = 1
    /\ ev.hit # 0
    /\ LET lv == levels[1]
           e == ev.enemies[ev.hit]
       IN  /\ DictGet(lv.enemy_types, e.enemy_type).required
           /\ e.alive
           /\ ~lv.enemies[ev.hit].alive
           /\ lv.required_enemies_killed = lv.required_enemies_total
           /\ lv.required_enemies_total = 1

\* C3: within a run a collected flag never goes back to false; a pass
\* raises required_collectibles_collected by exactly the number of required
\* collectibles it newly collected (each instance counts once, when its
\* flag turns true), and it collects every collectible the player overlaps,
\* so an overlap that persists finds the flag already set and counts
\* nothing.
C3_Step ==
    ev'.kind # "start_run" =>
        LET before == LevelBefore
            after == LevelAfter
            all == 1..Len(before.collectibles)
            newly == {k \in all : /\ ~before.collectibles[k].collected
                                  /\ after.collectibles[k].collected}
            required(k) == DictGet(after.collectible_types,
                                   after.collectibles[k].collectible_type).required
        IN  /\ \A k \in all : before.collectibles[k].collected
                                => after.collectibles[k].collected
            /\ after.required_collectibles_collected
                 = before.required_collectibles_collected
                     + Cardinality({k \in newly : required(k)})
            /\ (ev'.kind = "tick" /\ ~LeftLevel) =>
                 \A k \in all :
                    colliderect(get_rect(player'),
                                Collectible_get_rect(after.collectibles[k]))
                        => after.collectibles[k].collected

C3_CollectedOnce == [][C3_Step]_vars

\* Two passes or more into an attack begun in this level, the player
\* still overlaps the first required coin, collected in an earlier pass
\* and counted once.
C3_Witness ==
    /\ ev.kind = "tick"
    /\ current_level_index = 0
    /\ player.attacking
    /\ player.attack_timer <= attack_duration - 2
    /\ LET lv == levels[1]
       IN  /\ lv.collectibles[1].collected
           /\ DictGet(lv.collectible_types, lv.collectibles[1].collectible_type).required
           /\ colliderect(get_rect(player), Collectible_get_rect(lv.collectibles[1]))
           /\ lv.required_collectibles_collected = 1

\* C4: a pass raises required_enemies_killed by 1 when an enemy of a
\* required type goes from alive to dead in it, and leaves the counter
\* alone otherwise; in particular when the enemy killed is not required.
C4_Step ==
    ev'.kind = "tick" =>
        LET before == LevelBefore
            after == LevelAfter
            died == {k \in 1..Len(before.enemies) :
                        before.enemies[k].alive /\ ~after.enemies[k].alive}
            required(k) == DictGet(after.enemy_types,
                                   after.enemies[k].enemy_type).required
        IN  /\ Cardinality(died) <= 1
            /\ after.required_enemies_killed
                 = before.required_enemies_killed
                     + Cardinality({k \in died : required(k)})

C4_RequiredKills == [][C4_Step]_vars

\* The enemy that is not required has been killed, the required one is
\* alive, and the counter is still 0.
C4_Witness ==
    /\ ev.kind = "tick"
    /\ current_level_index = 0
    /\ LET lv == levels[1]
       IN  /\ lv.required_enemies_killed = 0
           /\ \E k \in 1..Len(lv.enemies) :
                 /\ ~lv.enemies[k].alive
                 /\ ~DictGet(lv.enemy_types, lv.enemies[k].enemy_type).required
           /\ \E k \in 1..Len(lv.enemies) :
                 /\ lv.enemies[k].alive
                 /\ DictGet(lv.enemy_types, lv.enemies[k].enemy_type).required

\* The alive enemies whose boxes overlapped the attack box when the last
\* pass checked the attack.
C5_Overlapped ==
    {k \in 1..Len(ev.enemies) :
        /\ ev.enemies[k].alive
        /\ colliderect(ev.attack_rect, Enemy_get_rect(ev.enemies[k]))}

\* C5: when two or more alive enemies overlap the box of an active attack,
\* the pass damages and knocks back the first of them in the level's list
\* order and leaves every other enemy as it was.
C5_FirstEnemyOnly ==
    (ev.kind = "tick" /\ Cardinality(C5_Overlapped) >= 2) =>
        LET after == levels[ev.level_index + 1].enemies
            first == CHOOSE k \in C5_Overlapped : \A j \in C5_Overlapped : k <= j
        IN  /\ after[first].health = ev.enemies[first].health - attack_damage
            /\ Abs(after[first].x - ev.enemies[first].x) = H(ENEMY_KNOCKBACK)
            /\ \A k \in 1..Len(after) : k # first => after[k] = ev.enemies[k]

\* A pass whose attack box overlapped both enemies, alive.
C5_Witness ==
    /\ ev.kind = "tick"
    /\ Cardinality(C5_Overlapped) >= 2
    /\ ev.hit = 1

\* ------------------------------------------------- platforms (C8)
\* Held keys of a player that jumps and walks right.
JumpKeys == {[left |-> FALSE, right |-> r, up |-> u, down |-> FALSE] :
                r \in BOOLEAN, u \in BOOLEAN}

\* Nine columns wide: a platform two tiles long under the start position
\* (row 8) and a solid floor two rows below it.
PlatformLevel ==
    LevelDoc(9, 12,
        <<>>,
        Row("main", 1, 8, 6, 7) \o Row("main", 0, 10, 0, 8),
        <<>>,
        <<>>,
        <<>>)

NextPlatform ==
    \/ StartRun
    \/ KeyEscape
    \/ KeyReturn
    \/ TickWith(JumpKeys)

SpecPlatform == GameInit({<<PlatformLevel>>}) /\ [][NextPlatform]_vars

\* The platform tiles of the level whose boxes overlap box r.
PlatformsUnder(r) ==
    LET platforms == get_platform_tiles(level_of(Self))
    IN  {TileRect(platforms[i]) : i \in {j \in 1..Len(platforms) :
                                          colliderect(r, TileRect(platforms[j]))}}

\* The last pass left the player standing flush on a platform tile it
\* overlapped.
C8_Caught ==
    /\ ev.kind = "tick"
    /\ ev.vout.on_ground
    /\ ev.vout.vel_y = 0
    /\ \E t \in PlatformsUnder(get_rect(ev.vin)) : ev.vout.y = H(t.y - player_height)

\* C8: handle_vertical_collisions puts the player on a platform tile only
\* when the player comes to it moving down (vel_y > 0), overlaps it, and
\* has its bottom edge at most 8 pixels below the tile's top edge; a player
\* that overlaps a platform with vel_y <= 0 keeps its position and its
\* velocity.
C8_PlatformStop ==
    LET r == get_rect(ev.vin)
    IN  /\ C8_Caught =>
              /\ ev.vin.vel_y > 0
              /\ \E t \in PlatformsUnder(r) :
                    /\ ev.vout.y = H(t.y - player_height)
                    /\ r.y + r.h <= t.y + PLATFORM_TOLERANCE
        /\ (ev.kind = "tick" /\ ev.vin.vel_y <= 0 /\ PlatformsUnder(r) # {}) =>
              /\ ev.vout.y = ev.vin.y
              /\ ev.vout.vel_y = ev.vin.vel_y
              /\ ~ev.vout.on_ground

\* A falling player caught by the platform it had sunk into.
C8_Witness ==
    /\ C8_Caught
    /\ ev.vin.vel_y > H(1)

\* A player that fell more than 8 pixels into the platform and was not
\* stopped by it.
C8_FellThrough ==
    /\ ev.kind = "tick"
    /\ ev.vin.vel_y > 0
    /\ \E t \in PlatformsUnder(get_rect(ev.vin)) :
          get_rect(ev.vin).y + player_height > t.y + PLATFORM_TOLERANCE
    /\ ev.vout.y = ev.vin.y

\* A player that rose through the platform from below.
C8_RoseThrough ==
    /\ ev.kind = "tick"
    /\ ev.vin.vel_y < 0
    /\ PlatformsUnder(get_rect(ev.vin)) # {}

\* ------------------------------------------------- patrol (C9)
\* The player stands on two solid tiles under the start position; a patrol
\* enemy of speed 2 (type 2) starts at x = 100, patrol range 50, on a
\* floor of its own two rows further down, out of the player's reach.
PatrolLevel ==
    LevelDoc(13, 14,
        <<>>,
        Row("main", 0, 8, 6, 7) \o Row("main", 0, 11, 2, 10),
        <<>>,
        <<[x |-> 100, y |-> 160, enemy_type_id |-> 2, patrol_range |-> 50]>>,
        <<>>)

NextPatrol ==
    \/ StartRun
    \/ KeyEscape
    \/ KeyReturn
    \/ TickWith({NoKeys})

SpecPatrol == GameInit({<<PatrolLevel>>}) /\ [][NextPatrol]_vars

\* The patrol enemy before and after a pass.
PatrolBefore == LevelBefore.enemies[1]
PatrolAfter == LevelAfter.enemies[1]

\* C9: the patrol enemy (speed 2, start_x 100, patrol_range 50) turns to
\* direction -1 in exactly the pass in which its x reaches 150 and to
\* direction +1 in exactly the pass in which its x reaches 50.
C9_Step ==
    ev'.kind = "tick" =>
        /\ (PatrolBefore.direction = 1 /\ PatrolAfter.direction = -1)
              <=> (PatrolBefore.x < H(150) /\ PatrolAfter.x = H(150))
        /\ (PatrolBefore.direction = -1 /\ PatrolAfter.direction = 1)
              <=> (PatrolBefore.x > H(50) /\ PatrolAfter.x = H(50))

C9_FlipsAtTurningPoints == [][C9_Step]_vars

\* What the code does: the pass that begins with x = 150 turns the enemy
\* and still carries it on to 152, the pass that begins with x = 50 turns
\* it and carries it on to 48; x stays within 48..152.
C9_Overshoot ==
    ev'.kind = "tick" =>
        /\ (PatrolBefore.direction = 1 /\ PatrolAfter.direction = -1)
              <=> (PatrolBefore.x = H(150) /\ PatrolAfter.x = H(152)
                     /\ PatrolBefore.direction = 1)
        /\ (PatrolBefore.direction = -1 /\ PatrolAfter.direction = 1)
              <=> (PatrolBefore.x = H(50) /\ PatrolAfter.x = H(48)
                     /\ PatrolBefore.direction = -1)
        /\ PatrolAfter.x >= H(48)
        /\ PatrolAfter.x <= H(152)

C9_TurnsOnePassLate == [][C9_Overshoot]_vars

\* The enemy beyond its range, just turned.
C9_Beyond ==
    /\ ev.kind = "tick"
    /\ level_of(Self).enemies[1].x = H(152)
    /\ level_of(Self).enemies[1].direction = -1

\* ------------------------------------------------- editor (C10)
\* tile_editor.py.  `editor` holds the fields of TileEditor that save_level
\* writes and the selected layer and tile type; the palette entry selected
\* for an enemy or a collectible is an input of the click that places it.
DEFAULT_LEVEL_WIDTH == 200
DEFAULT_LEVEL_HEIGHT == 50

\* _create_placeholder_tiles, _create_placeholder_enemies and
\* _create_placeholder_collectibles: ids count up from 0.
PlaceholderTileTypes ==
    <<<<0, [id |-> 0, properties |-> {"solid"}]>>,
      <<1, [id |-> 1, properties |-> {"platform"}]>>,
      <<2, [id |-> 2, properties |-> {"hazard", "solid"}]>>,
      <<3, [id |-> 3, properties |-> {"background"}]>>,
      <<4, [id |-> 4, properties |-> {"ladder"}]>>,
      <<5, [id |-> 5, properties |-> {"breakable", "solid"}]>>>>

PlaceholderEnemyTypes ==
    <<<<0, [id |-> 0, ai_type |-> "patrol", health |-> 3, damage |-> 1, speed |-> 3,
            behavior_script |-> None, required |-> FALSE]>>,
      <<1, [id |-> 1, ai_type |-> "flying", health |-> 2, damage |-> 1, speed |-> 4,
            behavior_script |-> None, required |-> FALSE]>>,
      <<2, [id |-> 2, ai_type |-> "stationary", health |-> 999, damage |-> 2, speed |-> 0,
            behavior_script |-> None, required |-> FALSE]>>>>

PlaceholderCollectibleTypes ==
    <<<<0, [id |-> 0, effect |-> "health", value |-> 20, required |-> FALSE]>>,
      <<1, [id |-> 1, effect |-> "score", value |-> 100, required |-> FALSE]>>,
      <<2, [id |-> 2, effect |-> "key", value |-> 1, required |-> FALSE]>>,
      <<3, [id |-> 3, effect |-> "powerup", value |-> 1, required |-> FALSE]>>>>

\* TileEditor.__init__
TileEditor ==
    [level_width |-> DEFAULT_LEVEL_WIDTH,
     level_height |-> DEFAULT_LEVEL_HEIGHT,
     tiles |-> [background |-> <<>>, main |-> <<>>, foreground |-> <<>>],
     tile_types |-> PlaceholderTileTypes,
     enemy_types |-> PlaceholderEnemyTypes,
     enemies |-> <<>>,
     collectible_types |-> PlaceholderCollectibleTypes,
     collectibles |-> <<>>,
     current_tile_type_id |-> 0,
     current_layer |-> "main"]

place_tile(ed, tile_x, tile_y) ==
    [ed EXCEPT !.tiles[ed.current_layer] =
        DictSet(@, <<tile_x, tile_y>>,
                [tile_type_id |-> ed.current_tile_type_id, layer |-> ed.current_layer])]

erase_tile(ed, tile_x, tile_y) ==
    IF DictHas(ed.tiles[ed.current_layer], <<tile_x, tile_y>>)
    THEN [ed EXCEPT !.tiles[ed.current_layer] = DictDel(@, <<tile_x, tile_y>>)]
    ELSE ed

\* (world // TILE_SIZE) * TILE_SIZE
snap(world) == (world \div TILE_SIZE) * TILE_SIZE

EnemyInstance(x, y, enemy_type_id) ==
    [x |-> x, y |-> y, enemy_type_id |-> enemy_type_id,
     patrol_range |-> DEFAULT_PATROL_RANGE]

CollectibleInstance(x, y, collectible_type_id) ==
    [x |-> x, y |-> y, collectible_type_id |-> collectible_type_id]

\* The list without the first instance within TILE_SIZE of the click.
pop_first_near(instances, world_x, world_y) ==
    LET near == {i \in 1..Len(instances) :
                    /\ Abs(instances[i].x - world_x) < TILE_SIZE
                    /\ Abs(instances[i].y - world_y) < TILE_SIZE}
    IN  IF near = {} THEN instances
        ELSE LET i == CHOOSE k \in near : \A j \in near : k <= j
             IN  [k \in 1..(Len(instances) - 1) |->
                     IF k < i THEN instances[k] ELSE instances[k + 1]]

\* The to_dict methods, with the fields the game reads.
TileType_to_dict(t) == [id |-> t.id, properties |-> t.properties]

Tile_to_dict(t) == [tile_type_id |-> t.tile_type_id, layer |-> t.layer]

EnemyType_to_dict(t) ==
    [id |-> t.id, ai_type |-> t.ai_type, health |-> t.health, damage |-> t.damage,
     speed |-> t.speed, behavior_script |-> t.behavior_script]

EnemyInstance_to_dict(e) ==
    [x |-> e.x, y |-> e.y, enemy_type_id |-> e.enemy_type_id,
     patrol_range |-> e.patrol_range]

CollectibleType_to_dict(t) ==
    [id |-> t.id, effect |-> t.effect, value |-> t.value, required |-> t.required]

CollectibleInstance_to_dict(c) ==
    [x |-> c.x, y |-> c.y, collectible_type_id |-> c.collectible_type_id]

\* json.dump of a dict with int keys writes each key as str(key).
dump_tile_types(types) ==
    [i \in 1..Len(types) |-> <<str(types[i][1]), TileType_to_dict(types[i][2])>>]

dump_enemy_types(types) ==
    [i \in 1..Len(types) |-> <<str(types[i][1]), EnemyType_to_dict(types[i][2])>>]

dump_collectible_types(types) ==
    [i \in 1..Len(types) |-> <<str(types[i][1]), CollectibleType_to_dict(types[i][2])>>]

dump_layer(tiles) ==
    [i \in 1..Len(tiles) |->
        <<pos_str(tiles[i][1][1], tiles[i][1][2]), Tile_to_dict(tiles[i][2])>>]

\* The document save_level writes.
level_data(ed) ==
    [width |-> ed.level_width,
     height |-> ed.level_height,
     tile_types |-> dump_tile_types(ed.tile_types),
     layers |-> <<<<"background", dump_layer(ed.tiles.background)>>,
                  <<"main", dump_layer(ed.tiles.main)>>,
                  <<"foreground", dump_layer(ed.tiles.foreground)>>>>,
     enemy_types |-> dump_enemy_types(ed.enemy_types),
     enemies |-> [i \in 1..Len(ed.enemies) |-> EnemyInstance_to_dict(ed.enemies[i])],
     collectible_types |-> dump_collectible_types(ed.collectible_types),
     collectibles |-> [i \in 1..Len(ed.collectibles) |->
                          CollectibleInstance_to_dict(ed.collectibles[i])]]

\* The editing session: at most MaxPlaced tiles, enemies and collectibles
\* are on the canvas at a time; the clicks fall on the cells and the points
\* below, with one of the palette entries below selected.
MaxPlaced == 2
EditorCells == {<<12, 3>>}
EditorClicks == {<<40, 50>>}
EditedEnemyTypes == {0}
EditedCollectibleTypes == {1}

Placed(ed) ==
    Len(ed.tiles.background) + Len(ed.tiles.main) + Len(ed.tiles.foreground)
        + Len(ed.enemies) + Len(ed.collectibles)

\* The level is edited and saved before the game is started on it.
Edit(ed) ==
    /\ state = "title"
    /\ editor' = ed
    /\ ev' = [kind |-> "edit"]
    /\ UNCHANGED <<files, state, game_over, levels, current_level_index, player,
                   total_score>>

\* K_1, K_2, K_3
KeyLayer ==
    \E layer \in {"background", "main", "foreground"} :
        Edit([editor EXCEPT !.current_layer = layer])

\* Left click on the canvas, TILES tab, pencil.
PlaceTile ==
    /\ Placed(editor) < MaxPlaced
    /\ \E cell \in EditorCells : Edit(place_tile(editor, cell[1], cell[2]))

\* Right click on the canvas, TILES tab.
EraseTile ==
    \E cell \in EditorCells :
        /\ DictHas(editor.tiles[editor.current_layer], cell)
        /\ Edit(erase_tile(editor, cell[1], cell[2]))

\* Left click on the canvas, ENEMIES tab.
PlaceEnemy ==
    /\ Placed(editor) < MaxPlaced
    /\ \E pos \in EditorClicks, id \in EditedEnemyTypes :
          Edit([editor EXCEPT !.enemies =
                  Append(@, EnemyInstance(snap(pos[1]), snap(pos[2]), id))])

\* Right click on the canvas, ENEMIES tab.
RemoveEnemy ==
    /\ Len(editor.enemies) > 0
    /\ \E pos \in EditorClicks :
          Edit([editor EXCEPT !.enemies = pop_first_near(@, pos[1], pos[2])])

\* Left click on the canvas, OBJECTS tab.
PlaceCollectible ==
    /\ Placed(editor) < MaxPlaced
    /\ \E pos \in EditorClicks, id \in EditedCollectibleTypes :
          Edit([editor EXCEPT !.collectibles =
                  Append(@, CollectibleInstance(snap(pos[1]), snap(pos[2]), id))])

\* Right click on the canvas, OBJECTS tab.
RemoveCollectible ==
    /\ Len(editor.collectibles) > 0
    /\ \E pos \in EditorClicks :
          Edit([editor EXCEPT !.collectibles = pop_first_near(@, pos[1], pos[2])])

\* The Required checkbox of the enemy editor.
ToggleEnemyRequired ==
    \E id \in EditedEnemyTypes :
        Edit([editor EXCEPT !.enemy_types =
                DictSet(@, id, [DictGet(@, id) EXCEPT !.required = ~@])])

\* The Required checkbox of the collectible editor.
ToggleCollectibleRequired ==
    \E id \in EditedCollectibleTypes :
        Edit([editor EXCEPT !.collectible_types =
                DictSet(@, id, [DictGet(@, id) EXCEPT !.required = ~@])])

\* save_level, to the one level file of the game's directory.
SaveLevel ==
    /\ state = "title"
    /\ files' = <<level_data(editor)>>
    /\ ev' = [kind |-> "save"]
    /\ UNCHANGED <<state, game_over, levels, current_level_index, player,
                   total_score, editor>>

EditorInit ==
    /\ files = <<>>
    /\ state = "title"
    /\ game_over = FALSE
    /\ levels = <<>>
    /\ current_level_index = 0
    /\ player = None
    /\ total_score = 0
    /\ ev = [kind |-> "init"]
    /\ editor = TileEditor

NextEditor ==
    \/ KeyLayer
    \/ PlaceTile
    \/ EraseTile
    \/ PlaceEnemy
    \/ RemoveEnemy
    \/ PlaceCollectible
    \/ RemoveCollectible
    \/ ToggleEnemyRequired
    \/ ToggleCollectibleRequired
    \/ SaveLevel
    \/ StartRun

SpecEditor == EditorInit /\ [][NextEditor]_vars

\* The tiles of a layer as a set of (position, tile type id, layer).
LayerSet(tiles) ==
    {<<tiles[i][1], tiles[i][2].tile_type_id, tiles[i][2].layer>> : i \in 1..Len(tiles)}

\* The loaded level has the editor's tiles in the three layers, and its
\* enemies and collectibles at the editor's positions, of the editor's
\* types, in the editor's order.
SameLayout(ed, level) ==
    /\ \A layer \in {"background", "main", "foreground"} :
          LayerSet(level.tiles[layer]) = LayerSet(ed.tiles[layer])
    /\ Len(level.enemies) = Len(ed.enemies)
    /\ \A i \in 1..Len(ed.enemies) :
          /\ level.enemies[i].x = H(ed.enemies[i].x)
          /\ level.enemies[i].y = H(ed.enemies[i].y)
          /\ level.enemies[i].enemy_type = ed.enemies[i].enemy_type_id
          /\ level.enemies[i].patrol_range = ed.enemies[i].patrol_range
    /\ Len(level.collectibles) = Len(ed.collectibles)
    /\ \A i \in 1..Len(ed.collectibles) :
          /\ level.collectibles[i].x = ed.collectibles[i].x
          /\ level.collectibles[i].y = ed.collectibles[i].y
          /\ level.collectibles[i].collectible_type = ed.collectibles[i].collectible_type_id

SameCollectibleRequirements(ed, level) ==
    /\ \A i \in 1..Len(ed.collectible_types) :
          DictGet(level.collectible_types, ed.collectible_types[i][1]).required
              = ed.collectible_types[i][2].required
    /\ level.required_collectibles_total =
          Cardinality({i \in 1..Len(ed.collectibles) :
              DictGet(ed.collectible_types, ed.collectibles[i].collectible_type_id).required})

SameEnemyRequirements(ed, level) ==
    /\ \A i \in 1..Len(ed.enemy_types) :
          DictGet(level.enemy_types, ed.enemy_types[i][1]).required
              = ed.enemy_types[i][2].required
    /\ level.required_enemies_total =
          Cardinality({i \in 1..Len(ed.enemies) :
              DictGet(ed.enemy_types, ed.enemies[i].enemy_type_id).required})

\* The game has just loaded the file the editor's save_level writes for
\* the level now in the editor.
LoadedSavedLevel ==
    /\ ev.kind = "start_run"
    /\ state = "playing"
    /\ files = <<level_data(editor)>>

\* C10: the level the game loads from the file save_level wrote has the
\* editor's tile layout in the three layers, the editor's enemy and
\* collectible placements, and the editor's required flags, so that
\* required_enemies_total and required_collectibles_total are the numbers
\* of placed instances of a type flagged required in the editor.
C10_RoundTrip ==
    LoadedSavedLevel =>
        /\ SameLayout(editor, levels[1])
        /\ SameCollectibleRequirements(editor, levels[1])
        /\ SameEnemyRequirements(editor, levels[1])

\* What does hold: the layout, the placements and the collectible side of
\* the requirements come back as saved.
C10_AllButEnemyRequired ==
    LoadedSavedLevel =>
        /\ SameLayout(editor, levels[1])
        /\ SameCollectibleRequirements(editor, levels[1])

\* An enemy of a type flagged required was placed and saved; the game
\* loaded the file and requires no enemy.
C10_Lost ==
    /\ LoadedSavedLevel
    /\ Len(editor.enemies) = 1
    /\ DictGet(editor.enemy_types, editor.enemies[1].enemy_type_id).required
    /\ levels[1].required_enemies_total = 0

\* ------------------------------------------------- game over (C11)
\* The body of `if not self.game_over:` in Game.run: the player, the
\* enemies, the collision checks, the death check and the level's end.
playing_update(g, keys) ==
    LET g5 == check_player_death(after_attack(after_collect(after_contact(
                  after_player(g, keys)))))
    IN  IF check_end_level_collision(g5) THEN advance_level(g5) ELSE g5

\* playing_pass without the game_over test.
playing_pass_unguarded(g, keys) == playing_update(g, keys)

\* One iteration of Game.run in the PLAYING state.
playing_pass(g, keys) ==
    IF ~g.game_over THEN playing_update(g, keys) ELSE g

\* An iteration of Game.run while PLAYING, game over or not; a pass that
\* found game_over set leaves "frozen" in ev.
Pass(keys) ==
    /\ state = "playing"
    /\ Becomes(playing_pass(Self, keys))
    /\ ev' = IF game_over THEN [kind |-> "frozen", keys |-> keys]
             ELSE LET g3 == after_collect(after_contact(after_player(Self, keys)))
                      g5 == check_player_death(after_attack(g3))
                  IN  TickEvent(Self, keys, g3, g5)
    /\ UNCHANGED <<files, editor>>

PassWith(K) == \E keys \in K : Pass(keys)

\* Held keys of a player that stands or walks right.
RightKeys == {[left |-> FALSE, right |-> r, up |-> FALSE, down |-> FALSE] : r \in BOOLEAN}

\* No ground under the start position or to the right of it: the player
\* falls out of the level.  On a floor to the left (row 10, columns 1..4)
\* a patrol enemy of speed 2 walks to and fro.
FallLevel ==
    LevelDoc(13, 12,
        <<>>,
        Row("main", 0, 10, 1, 4),
        <<>>,
        <<[x |-> 40, y |-> 144, enemy_type_id |-> 2, patrol_range |-> 10]>>,
        <<>>)

NextGameOver ==
    \/ StartRun
    \/ KeyEscape
    \/ KeySpace
    \/ KeyReturn
    \/ PassWith(RightKeys)

SpecGameOver == GameInit({<<FallLevel>>}) /\ [][NextGameOver]_vars

\* C11: from a state with game_over set while PLAYING, no step (a pass of
\* the run loop with any keys held, an attack request, any key event)
\* changes the player, the enemies, the collectibles, the level's score
\* and counters, total_score, current_level_index or game_over; the only
\* steps that leave the PLAYING state are the ENTER and ESC key events,
\* which go to the title screen.
C11_Step ==
    (game_over /\ state = "playing") =>
        /\ UNCHANGED <<player, levels, total_score, current_level_index, game_over>>
        /\ state' # state => (state' = "title" /\ ev'.kind \in {"escape", "return"})

C11_FrozenAfterGameOver == [][C11_Step]_vars

\* A pass of the run loop made after the player fell out of the level,
\* with the right key held and the patrol enemy alive.
C11_Witness ==
    /\ game_over
    /\ state = "playing"
    /\ ev.kind = "frozen"
    /\ ev.keys.right
    /\ player.y > H(level_of(Self).height * TILE_SIZE)
    /\ level_of(Self).enemies[1].alive

\* An attack request made after the game was over.
C11_WitnessAttack ==
    /\ game_over
    /\ state = "playing"
    /\ ev.kind = "space"
    /\ ~player.attacking

\* ------------------------------------------------- level completion (C12)
\* A ledge with a wall at column 4.  The start position overlaps a hazard
\* tile that is not solid (column 7) and the exit tile (column 6); the one
\* required coin lies to the left, at x = 80.
HurtLevel ==
    LevelDoc(12, 10,
        Row("background", 6, 7, 6, 6),
        Row("main", 0, 8, 5, 7) \o Row("main", 0, 6, 4, 4) \o Row("main", 0, 7, 4, 4),
        Row("foreground", 7, 7, 7, 7),
        <<>>,
        <<[x |-> 80, y |-> 112, collectible_type_id |-> 1]>>)

\* A last level with an exit tile and a coin at the start position.
LastLevel ==
    LevelDoc(12, 10,
        <<>>,
        Row("main", 0, 8, 5, 7) \o Row("main", 6, 7, 6, 6),
        <<>>,
        <<>>,
        <<[x |-> 96, y |-> 112, collectible_type_id |-> 1]>>)

NextAdvance ==
    \/ StartRun
    \/ KeyEscape
    \/ KeyReturn
    \/ TickWith(LeftKeys)

SpecAdvance == GameInit({<<HurtLevel, LastLevel>>}) /\ [][NextAdvance]_vars

\* C12: a pass in which check_end_level_collision holds calls
\* advance_level: with a next level, current_level_index grows by exactly
\* 1, the player is put at (100, 100) and keeps the health it had when
\* the completion was found; without one, the state becomes TITLE and
\* current_level_index stays.  Either way total_score grows by the score
\* of the level just completed.
C12_Step ==
    (ev'.kind = "tick" /\ ev'.advanced) =>
        LET g == ev'.at_end
        IN  /\ total_score' = g.total_score + g.score
            /\ IF current_level_index + 1 < Len(levels)
               THEN /\ current_level_index' = current_level_index + 1
                    /\ player'.x = H(100)
                    /\ player'.y = H(100)
                    /\ player'.health = g.player.health
                    /\ state' = "playing"
               ELSE /\ state' = "title"
                    /\ current_level_index' = current_level_index
                    /\ player' = g.player

C12_WitnessLast ==
    /\ ev.kind = "tick"
    /\ ev.advanced
    /\ ev.level_index = 1
    /\ current_level_index = 1
    /\ state = "title"
    /\ total_score = 200

\* ------------------------------------------------- requirement counters (C13)
\* The numbers of enemies and of collectibles placed in a level document
\* whose type is in the document's type table and flagged required there.
RequiredEnemiesPlaced(data) ==
    Cardinality({k \in 1..Len(data.enemies) :
        LET key == str(data.enemies[k].enemy_type_id)
        IN  /\ DictHas(data.enemy_types, key)
            /\ get_default(DictGet(data.enemy_types, key), "required", FALSE)})

RequiredCollectiblesPlaced(data) ==
    Cardinality({k \in 1..Len(data.collectibles) :
        LET key == str(data.collectibles[k].collectible_type_id)
        IN  /\ DictHas(data.collectible_types, key)
            /\ get_default(DictGet(data.collectible_types, key), "required", FALSE)})

\* C13: a load (start of a run) sets each level's required_enemies_total
\* and required_collectibles_total to the numbers of placed enemies and
\* collectibles of a type flagged required, and the killed and collected
\* counters to 0; no other step changes a total or lowers a counter.
C13_Step ==
    IF ev'.kind = "start_run"
    THEN /\ Len(levels') = Len(files)
         /\ \A i \in 1..Len(levels') :
               /\ levels'[i].required_enemies_total = RequiredEnemiesPlaced(files[i])
               /\ levels'[i].required_collectibles_total
                     = RequiredCollectiblesPlaced(files[i])
               /\ levels'[i].required_enemies_killed = 0
               /\ levels'[i].required_collectibles_collected = 0
    ELSE /\ Len(levels') = Len(levels)
         /\ \A i \in 1..Len(levels) :
               /\ levels'[i].required_enemies_total = levels[i].required_enemies_total
               /\ levels'[i].required_collectibles_total
                     = levels[i].required_collectibles_total
               /\ levels'[i].required_enemies_killed >= levels[i].required_enemies_killed
               /\ levels'[i].required_collectibles_collected
                     >= levels[i].required_collectibles_collected

C13_RequirementCounters == [][C13_Step]_vars

\* Two enemies placed, one of a required type, and two required coins: the
\* totals are 1 and 2, the required enemy has been killed and a coin
\* collected.
C13_Witness ==
    /\ ev.kind = "tick"
    /\ current_level_index = 0
    /\ Len(levels[1].enemies) = 2
    /\ levels[1].required_enemies_total = 1
    /\ levels[1].required_enemies_killed = 1
    /\ levels[1].required_collectibles_total = 2
    /\ levels[1].required_collectibles_collected = 1

\* ------------------------------------------------- behavior scripts (C14)
\* example_sinewave_enemy.py, update(enemy, player, level): what it does to
\* the enemy's horizontal motion (vel_x, direction, x).  Its vertical
\* motion, math.sin(wave_counter) * 2, is not on the half-pixel grid and
\* is left out.
sinewave_update(e, etype, level) ==
    LET level_width == level.width * 16
        e1 == [e EXCEPT !.vel_x = etype.speed * e.direction]
        e2 == IF e1.x <= H(50) \/ e1.x >= H(level_width - 50)
              THEN [e1 EXCEPT !.direction = -e1.direction]
              ELSE e1
    IN  [vel_x |-> e2.vel_x, direction |-> e2.direction, x |-> e2.x + e2.vel_x]

\* The platform level with, on its floor, an enemy of type 4: AI kind
\* stationary, speed 2, behavior script example_sinewave_enemy.py.
ScriptLevel ==
    LevelDoc(9, 12,
        <<>>,
        Row("main", 1, 8, 6, 7) \o Row("main", 0, 10, 0, 8),
        <<>>,
        <<[x |-> 60, y |-> 144, enemy_type_id |-> 4, patrol_range |-> 100]>>,
        <<>>)

NextScript ==
    \/ StartRun
    \/ KeyEscape
    \/ KeyReturn
    \/ TickWith(JumpKeys)

SpecScript == GameInit({<<ScriptLevel>>}) /\ [][NextScript]_vars

\* The behavior script the level file names for the type of enemy e
\* (None: none).
behavior_script_of(e) ==
    get_default(DictGet(files[current_level_index + 1].enemy_types, str(e.enemy_type)),
                "behavior_script", None)

\* C14: in every pass, an alive enemy whose type names the behavior
\* script example_sinewave_enemy.py is moved by that script's update, not
\* by the built-in behavior of its AI kind: it gets the velocity
\* speed * direction and is carried on by it.
C14_Step ==
    ev'.kind = "tick" =>
        \A k \in 1..Len(LevelBefore.enemies) :
            LET e == LevelBefore.enemies[k]
                after == LevelAfter.enemies[k]
                etype == DictGet(LevelBefore.enemy_types, e.enemy_type)
            IN  (e.alive /\ behavior_script_of(e) = "example_sinewave_enemy.py") =>
                    LET s == sinewave_update(e, etype, LevelBefore)
                    IN  /\ after.vel_x = s.vel_x
                        /\ after.direction = s.direction
                        /\ after.x = s.x

C14_ScriptInvoked == [][C14_Step]_vars

\* What the code does: the enemy with the script is updated as its AI
\* kind, stationary, says; it never moves.
C14_BuiltInOnly ==
    ev.kind = "tick" =>
        \A k \in 1..Len(level_of(Self).enemies) :
            /\ level_of(Self).enemies[k].x = H(60)
            /\ level_of(Self).enemies[k].vel_x = 0

\* ------------------------------------------------- malformed levels (C15)
\* HurtLevel with one more tile in the main layer, of type 9, which the
\* tile-type table (ids 0..7) does not hold.
BadTileLevel ==
    [HurtLevel EXCEPT !.layers[2][2] = @ \o Row("main", 9, 5, 6, 6)]

\* A ledge with one enemy placed without a patrol_range.
NoRangeLevel ==
    LevelDoc(12, 10,
        <<>>,
        Row("main", 0, 8, 4, 7) \o Row("main", 0, 6, 4, 4) \o Row("main", 0, 7, 4, 4),
        <<>>,
        <<[x |-> 64, y |-> 112, enemy_type_id |-> 3]>>,
        <<>>)

SpecLoad ==
    /\ GameInit({<<BadTileLevel, LastLevel>>, <<NoRangeLevel>>})
    /\ [][NextAdvance]_vars

\* Every tile placed in the document names a tile type of its table.
TileRefsValid(data) ==
    \A l \in 1..Len(data.layers) :
        \A t \in 1..Len(data.layers[l][2]) :
            DictHas(data.tile_types, str(data.layers[l][2][t][2].tile_type_id))

\* An enemy placed without a patrol_range is loaded with patrol_range 100.
PatrolRangeDefaults ==
    Len(levels) = Len(files) =>
        \A i \in 1..Len(files) :
            \A k \in 1..Len(files[i].enemies) :
                "patrol_range" \notin DOMAIN files[i].enemies[k]
                    => levels[i].enemies[k].patrol_range = 100

\* C15: the levels of a run just started are the files whose placed tiles
\* all name a tile type of the file's table (a file with a tile of an
\* absent type gives no level), and an enemy placed without a patrol_range
\* is loaded, with patrol_range 100.
C15_LoadRefusesBadTile ==
    ev.kind = "start_run" =>
        /\ Len(levels) = Cardinality({i \in 1..Len(files) : TileRefsValid(files[i])})
        /\ PatrolRangeDefaults

\* What does hold: the patrol_range default.
C15_PatrolRangeDefault ==
    ev.kind = "start_run" => PatrolRangeDefaults

\* The file without a patrol_range, loaded.
C15_DefaultUsed ==
    /\ ev.kind = "start_run"
    /\ Len(levels) = 1
    /\ "patrol_range" \notin DOMAIN files[1].enemies[1]
    /\ levels[1].enemies[1].patrol_range = 100

\* The file with the tile of an absent type, loaded and being played.
C15_BadTilePlayed ==
    /\ ev.kind = "tick"
    /\ current_level_index = 0
    /\ ~TileRefsValid(files[1])
    /\ Len(levels) = 2

\* ------------------------------------------------- hazard damage (C16)
\* A ledge with a wall at column 4 and, at column 7 beside the start
\* position, two hazard tiles that are not solid in the same cell: one in
\* the background layer and one in the foreground layer.
TwoHazardLevel ==
    LevelDoc(12, 10,
        Row("background", 7, 7, 7, 7),
        Row("main", 0, 8, 5, 7) \o Row("main", 0, 6, 4, 4) \o Row("main", 0, 7, 4, 4),
        Row("foreground", 7, 7, 7, 7),
        <<>>,
        <<>>)

SpecTwoHazards == GameInit({<<TwoHazardLevel>>}) /\ [][NextAdvance]_vars

\* The hazard tiles of the level that the box of the player overlaps at
\* the end of the pass being taken (the box check_hazards tested: nothing
\* moves the player after it in a level without enemies and exits).
HazardsTouched ==
    LET hazards == get_hazard_tiles(LevelBefore)
    IN  {i \in 1..Len(hazards) : colliderect(get_rect(player'), TileRect(hazards[i]))}

\* C16: a pass in which the player's box overlaps one hazard tile or more
\* lowers the player's health by exactly 1, or leaves it at 0, however
\* many hazard tiles the box overlaps.
C16_Step ==
    (ev'.kind = "tick" /\ HazardsTouched # {}) =>
        player'.health = Max(0, player.health - 1)

C16_OnePerTick == [][C16_Step]_vars

\* What the code does: 1 for every hazard tile overlapped, down to 0.
C16_TileStep ==
    ev'.kind = "tick" =>
        player'.health = Max(0, player.health - Cardinality(HazardsTouched))

C16_OnePerTile == [][C16_TileStep]_vars

\* A pass that took 2 from the player's health.
C16_TwoLost ==
    /\ ev.kind = "tick"
    /\ ev.vin.health = 100
    /\ player.health = 98

\* ------------------------------------------------- attack requests (C17)
\* C17: an attack request (K_SPACE while the game is not over) made with
\* attacking false and attack_cooldown_timer 0 sets attacking and sets
\* attack_timer to attack_duration, and changes nothing else; made in any
\* other state, during an attack or its cooldown, it changes nothing.
C17_Step ==
    (ev'.kind = "space" /\ ~game_over) =>
        IF ~player.attacking /\ player.attack_cooldown_timer = 0
        THEN player' = [player EXCEPT !.attacking = TRUE,
                                      !.attack_timer = attack_duration]
        ELSE player' = player

C17_AttackRequests == [][C17_Step]_vars

\* A request made three passes into an attack: the attack goes on with
\* its timer where it was.
C17_Witness ==
    /\ ev.kind = "space"
    /\ ~game_over
    /\ player.attacking
    /\ player.attack_timer = attack_duration - 3

\* A request made during the cooldown: no attack.
C17_WitnessCooldown ==
    /\ ev.kind = "space"
    /\ ~game_over
    /\ ~player.attacking
    /\ player.attack_cooldown_timer > 0

\* A request accepted: the attack has just begun.
C17_WitnessAccepted ==
    /\ ev.kind = "space"
    /\ player.attacking
    /\ player.attack_timer = attack_duration

\* ------------------------------------------------- attack window (C18)
\* The pass being taken tested the attack box against the enemies:
\* check_player_attack_collisions found `attacking` set.
HitboxTested == ev'.attack_rect.w > 0

\* C18: an accepted request sets attack_timer to 10; each of the next 10
\* passes (those begun with the attack on, attack_timer 10 down to 1)
\* tests the attack box against the enemies; the pass that ends the attack
\* leaves attack_cooldown_timer at attack_cooldown (20) and each later pass
\* takes 1 from it, so that a request is accepted again after 20 further
\* passes and not before.
C18_Step ==
    ev'.kind = "tick" =>
        /\ player.attacking =>
              /\ HitboxTested
              /\ player'.attack_timer = player.attack_timer - 1
              /\ player'.attacking = (player.attack_timer > 1)
        /\ (player.attacking /\ ~player'.attacking) =>
              player'.attack_cooldown_timer = attack_cooldown
        /\ (~player.attacking /\ player.attack_cooldown_timer > 0) =>
              player'.attack_cooldown_timer = player.attack_cooldown_timer - 1

C18_AttackWindow == [][C18_Step]_vars

\* What the code does: the pass begun with attack_timer 1 ends the attack
\* before the box is tested, so the box is tested in 9 passes; that pass
\* leaves attack_cooldown_timer at 19, and a request is accepted again
\* after 19 further passes.
C18_CodeStep ==
    ev'.kind = "tick" =>
        /\ HitboxTested = (player.attacking /\ player.attack_timer > 1)
        /\ player.attacking =>
              /\ player'.attack_timer = player.attack_timer - 1
              /\ player'.attacking = (player.attack_timer > 1)
        /\ (player.attacking /\ ~player'.attacking) =>
              player'.attack_cooldown_timer = attack_cooldown - 1
        /\ (~player.attacking /\ player.attack_cooldown_timer > 0) =>
              player'.attack_cooldown_timer = player.attack_cooldown_timer - 1

C18_NineAndNineteen == [][C18_CodeStep]_vars

\* The tenth pass of an attack: begun with attack_timer 1, it did not test
\* the box and left the cooldown at 19.
C18_TenthPass ==
    /\ ev.kind = "tick"
    /\ ev.vin.attacking
    /\ ev.vin.attack_timer = 1
    /\ ev.attack_rect.w = 0
    /\ ~player.attacking
    /\ player.attack_cooldown_timer = attack_cooldown - 1

\* ------------------------------------------------- jumping, gravity (C19, C20)
\* Held keys of a player that walks left, jumps and climbs.
ClimbKeys ==
    {NoKeys,
     [NoKeys EXCEPT !.left = TRUE],
     [NoKeys EXCEPT !.up = TRUE],
     [NoKeys EXCEPT !.down = TRUE],
     [NoKeys EXCEPT !.left = TRUE, !.up = TRUE]}

\* A cell two tiles wide: a floor (row 8, columns 6 and 7), a wall to the
\* left (column 5) and a ceiling (row 4).  A ladder two tiles high stands
\* at column 7; the player overlaps it at the start position and no longer
\* after a step to the left.
LadderLevel ==
    LevelDoc(12, 10,
        <<>>,
        Row("main", 0, 8, 6, 7) \o Row("main", 0, 4, 5, 7)
            \o Row("main", 0, 5, 5, 5) \o Row("main", 0, 6, 5, 5) \o Row("main", 0, 7, 5, 5)
            \o Row("main", 4, 6, 7, 7) \o Row("main", 4, 7, 7, 7),
        <<>>,
        <<>>,
        <<>>)

NextLadder ==
    \/ StartRun
    \/ KeyEscape
    \/ KeyReturn
    \/ TickWith(ClimbKeys)

SpecLadder == GameInit({<<LadderLevel>>}) /\ [][NextLadder]_vars

\* The player at the jump check of the pass being taken: after the
\* horizontal and the climbing input.
AtJumpCheck == climbing_input(horizontal_input(player, ev'.keys), ev'.keys)

\* The pass being taken made the player jump: it left the player moving
\* up at jump_strength (less the gravity of the pass, when it applies);
\* nothing else gives the player an upward speed above player_speed.
Jumped ==
    /\ ev'.kind = "tick"
    /\ ev'.vin.vel_y <= GRAVITY - H(jump_strength)

\* C19: a pass makes the player jump only with the up key held, with
\* on_ground set at the start of the pass and with the player not
\* climbing at the jump check; a jump clears on_ground.
C19_Step ==
    Jumped =>
        /\ ev'.keys.up
        /\ player.on_ground
        /\ ~player.climbing
        /\ ~AtJumpCheck.climbing
        /\ ~ev'.vin.on_ground

C19_JumpOnlyGrounded == [][C19_Step]_vars

\* A jump: the player, off the ladder, has left the ground.
C19_Witness ==
    /\ ev.kind = "tick"
    /\ ev.keys.up
    /\ ev.vin.vel_y = GRAVITY - H(jump_strength)
    /\ ~player.on_ground
    /\ player.y < H(START_Y)

\* The up key held by a player that climbs: no jump.
C19_WitnessClimbing ==
    /\ ev.kind = "tick"
    /\ ev.keys.up
    /\ player.climbing
    /\ player.vel_y = -H(player_speed)

\* Held keys of a player on a ladder: climb, or step right and let go.
ShaftKeys ==
    {NoKeys,
     [NoKeys EXCEPT !.up = TRUE],
     [NoKeys EXCEPT !.down = TRUE],
     [NoKeys EXCEPT !.right = TRUE]}

\* A shaft seven tiles wide and 24 high with no ground: the level's right
\* edge holds the player at x = 98, on a ladder three tiles high (column
\* 6, rows 5 to 7).  A player that lets go falls out of the level.
ShaftLevel ==
    LevelDoc(7, 24,
        <<>>,
        Row("main", 4, 5, 6, 6) \o Row("main", 4, 6, 6, 6) \o Row("main", 4, 7, 6, 6),
        <<>>,
        <<>>,
        <<>>)

NextShaft ==
    \/ StartRun
    \/ KeyEscape
    \/ KeyReturn
    \/ TickWith(ShaftKeys)

SpecShaft == GameInit({<<ShaftLevel>>}) /\ [][NextShaft]_vars

\* The player at the gravity step of the pass being taken: after the
\* horizontal input, the climbing input and the jump.
AtGravityStep == jump_input(AtJumpCheck, ev'.keys)

\* C20: a pass whose gravity step finds the player not climbing adds
\* GRAVITY to vel_y and then cuts it to MAX_FALL_SPEED; one that finds the
\* player climbing leaves vel_y as it is.  No pass ends with vel_y above
\* MAX_FALL_SPEED.
C20_Step ==
    ev'.kind = "tick" =>
        /\ IF AtGravityStep.climbing
           THEN ev'.vin.vel_y = AtGravityStep.vel_y
           ELSE ev'.vin.vel_y = Min(AtGravityStep.vel_y + GRAVITY, H(MAX_FALL_SPEED))
        /\ player'.vel_y <= H(10)

C20_GravityCapped == [][C20_Step]_vars

\* A pass begun at the maximum fall speed, not climbing: it ended at the
\* maximum fall speed.
C20_Witness ==
    /\ ev.kind = "tick"
    /\ ~ev.vin.climbing
    /\ ev.vin.vel_y = H(MAX_FALL_SPEED)
    /\ player.vel_y = H(MAX_FALL_SPEED)
    /\ ev.vin.y - ev.vin.vel_y > H(START_Y) + 200 * GRAVITY

\* A pass of a player hanging still on the ladder: no gravity.
C20_WitnessClimbing ==
    /\ ev.kind = "tick"
    /\ ev.keys = NoKeys
    /\ ev.vin.climbing
    /\ ev.vin.vel_y = 0
    /\ player.vel_y = 0
    /\ player.y < H(START_Y)

\* ------------------------------------------------- horizontal input (C21)
\* Held keys: none, left, right, left and right together, up.
InputKeys ==
    {NoKeys,
     [NoKeys EXCEPT !.left = TRUE],
     [NoKeys EXCEPT !.right = TRUE],
     [NoKeys EXCEPT !.left = TRUE, !.right = TRUE],
     [NoKeys EXCEPT !.up = TRUE]}

\* A shaft one tile wide and ten high with no ground and a ladder two
\* tiles high (column 0, rows 6 and 7): the level's edges hold the player
\* within x = 0 .. 2, on the ladder's column.
InputLevel ==
    LevelDoc(1, 10,
        <<>>,
        Row("main", 4, 6, 0, 0) \o Row("main", 4, 7, 0, 0),
        <<>>,
        <<>>,
        <<>>)

NextInput ==
    \/ StartRun
    \/ KeyEscape
    \/ KeyReturn
    \/ TickWith(InputKeys)

SpecInput == GameInit({<<InputLevel>>}) /\ [][NextInput]_vars

\* The player moved by its horizontal velocity alone: what a pass without
\* a solid tile in the way hands to handle_vertical_collisions.
C21_Outcome(vel_x, facing_right) ==
    /\ ev'.vin.vel_x = vel_x
    /\ ev'.vin.x = player.x + vel_x
    /\ ev'.vin.facing_right = facing_right
    /\ player'.facing_right = facing_right

\* C21: in a pass with the left key held, with or without the right key,
\* the player moves with vel_x = -speed and faces left; with the right key
\* alone it moves with vel_x = +speed and faces right; with neither,
\* vel_x = 0 and the facing stays.  With left or right held, climbing is
\* false at the climbing step: a player that climbed and does not hold up
\* or down on a ladder no longer climbs and gets the pass's gravity.
C21_Step ==
    ev'.kind = "tick" =>
        /\ ev'.keys.left => C21_Outcome(-H(player_speed), FALSE)
        /\ (ev'.keys.right /\ ~ev'.keys.left) => C21_Outcome(H(player_speed), TRUE)
        /\ (~ev'.keys.right /\ ~ev'.keys.left) => C21_Outcome(0, player.facing_right)
        /\ (ev'.keys.left \/ ev'.keys.right) =>
              /\ ~horizontal_input(player, ev'.keys).climbing
              /\ (~ev'.keys.up /\ ~ev'.keys.down) =>
                    /\ ~ev'.vin.climbing
                    /\ ev'.vin.vel_y = Min(player.vel_y + GRAVITY, H(MAX_FALL_SPEED))

C21_HorizontalInput == [][C21_Step]_vars

\* Left and right held together by a player that climbed and faced right:
\* it went left, faces left and climbs no more.
C21_Witness ==
    /\ ev.kind = "tick"
    /\ ev.keys.left
    /\ ev.keys.right
    /\ ev.vin.vel_x = -H(player_speed)
    /\ ~player.facing_right
    /\ ~player.climbing
    /\ player.y < H(START_Y) - H(TILE_SIZE)
    /\ player.vel_y = GRAVITY - H(player_speed)

\* ------------------------------------------------- level boundaries (C22)
\* C22: in a level without enemies, where the player a pass ends with is
\* the player Player.update left, every pass ends with
\* 0 <= x <= level.width * 16 - player.width and y >= 0, with vel_x = 0
\* when x is on one of its two bounds and with y = 0 and vel_y = 0 when the
\* movement had taken y above the top; a y not above the top is kept as the
\* movement and the collisions left it, however far below the level's
\* bottom.
C22_LevelBoundaries ==
    ev.kind = "tick" =>
        LET max_x == level_of(Self).width * 16 - player_width
        IN  /\ 0 <= player.x
            /\ player.x <= H(max_x)
            /\ player.y >= 0
            /\ (player.x = 0 \/ player.x = H(max_x)) => player.vel_x = 0
            /\ ev.vout.y < 0 => (player.y = 0 /\ player.vel_y = 0)
            /\ ev.vout.y >= 0 => (player.y = ev.vout.y /\ player.vel_y = ev.vout.vel_y)

\* A pass that ended with the player below the level's bottom, still
\* falling.
C22_Witness ==
    /\ ev.kind = "tick"
    /\ player.y > H(level_of(Self).height * 16)
    /\ player.vel_y > 0
    /\ player.x = 0
    /\ ev.keys.left

\* A pass that took the player above the top and was held at y = 0.
C22_WitnessTop ==
    /\ ev.kind = "tick"
    /\ ev.vout.y < 0
    /\ ev.vout.vel_y < 0
    /\ player.y = 0

\* The first pass of a run: the start position is right of the level's
\* right edge and the player is put on it.
C22_WitnessRight ==
    /\ ev.kind = "tick"
    /\ ev.vin.x = H(START_X)
    /\ player.x = H(level_of(Self).width * 16 - player_width)

\* ------------------------------------------------------ dead enemies (C23)
\* Held keys of a player that keeps walking left.
HoldLeft == {[left |-> TRUE, right |-> FALSE, up |-> FALSE, down |-> FALSE]}

\* A floor of five tiles that ends under the start position, with nothing
\* around it.  A patrol enemy (type 2, dies of one hit) walks on the floor
\* left of the start position; an enemy of type 1 (dies of two hits)
\* stands at the floor's left end.
SlayLevel ==
    LevelDoc(12, 10,
        <<>>,
        Row("main", 0, 8, 3, 7),
        <<>>,
        <<[x |-> 80, y |-> 112, enemy_type_id |-> 2, patrol_range |-> 4],
          [x |-> 40, y |-> 112, enemy_type_id |-> 1, patrol_range |-> 100]>>,
        <<>>)

NextSlay ==
    \/ StartRun
    \/ KeyEscape
    \/ KeySpace
    \/ KeyReturn
    \/ TickWith(HoldLeft)

SpecSlay == GameInit({<<SlayLevel>>}) /\ [][NextSlay]_vars

\* The alive enemies whose boxes the player's box overlapped when the pass
\* checked the contacts.
Touching(event) ==
    {k \in 1..Len(event.enemies) :
        /\ event.enemies[k].alive
        /\ colliderect(get_rect(event.body), Enemy_get_rect(event.enemies[k]))}

\* C23: in every pass, an alive enemy ends the pass dead exactly when it
\* was the attack's target and the hit left its health at 0 or below; a
\* dead enemy ends the pass dead and with the position, velocity and health
\* it had; the attack's target is an alive enemy; and a player whose box
\* overlaps the boxes of dead enemies only is not pushed and, unless it
\* fell out of the level, loses no health.
C23_Step ==
    ev'.kind = "tick" =>
        LET before == LevelBefore.enemies
            after == LevelAfter.enemies
        IN  /\ \A k \in 1..Len(before) :
                 /\ before[k].alive =>
                      (~after[k].alive <=>
                          (ev'.hit = k /\ before[k].health - attack_damage <= 0))
                 /\ (before[k].alive /\ ev'.hit = k) =>
                      after[k].health = before[k].health - attack_damage
                 /\ ~before[k].alive => after[k] = before[k]
                 /\ ev'.hit = k => before[k].alive
            /\ (Touching(ev') = {} /\ ~game_over') =>
                 /\ ev'.at_end.player.health = ev'.body.health
                 /\ ev'.at_end.player.x = ev'.body.x
            /\ (Touching(ev') # {} /\ ev'.body.health > 0) =>
                 ev'.at_end.player.health < ev'.body.health

C23_DeadEnemies == [][C23_Step]_vars

\* A pass ended with the patrol enemy dead, the player's box over the dead
\* enemy's box and the box of an attack in progress over it too.
C23_Witness ==
    /\ ev.kind = "tick"
    /\ state = "playing"
    /\ ~game_over
    /\ LET e == levels[1].enemies[1]
       IN  /\ ~e.alive
           /\ e.health <= 0
           /\ colliderect(get_rect(ev.body), Enemy_get_rect(e))
           /\ player.attacking
           /\ colliderect(ev.attack_rect, Enemy_get_rect(e))

\* A pass in which a hit left its target alive.
C23_WitnessSurvived ==
    /\ ev.kind = "tick"
    /\ ev.hit = 2
    /\ levels[1].enemies[2].alive
    /\ levels[1].enemies[2].health = 25

\* ------------------------------------------ death in a pass (C24, C25)
\* No ground.  Three enemies (types 1, 1 and 3: 45 + 45 + 15 points of
\* contact damage, none of them required) hang together left of the start
\* position and overlap the player's box there; each contact pushes the
\* player 10 pixels to the right, onto a health potion.
ReviveLevel ==
    LevelDoc(12, 10,
        <<>>,
        <<>>,
        <<>>,
        <<[x |-> 90, y |-> 120, enemy_type_id |-> 1, patrol_range |-> 100],
          [x |-> 90, y |-> 120, enemy_type_id |-> 1, patrol_range |-> 100],
          [x |-> 90, y |-> 120, enemy_type_id |-> 3, patrol_range |-> 100]>>,
        <<[x |-> 136, y |-> 104, collectible_type_id |-> 0]>>)

\* The same enemies; where they push the player lie the level's only
\* required collectible, a coin of 100 points, and an exit tile.
DoomLevel ==
    LevelDoc(12, 10,
        Row("background", 6, 6, 8, 8),
        <<>>,
        <<>>,
        <<[x |-> 90, y |-> 120, enemy_type_id |-> 1, patrol_range |-> 100],
          [x |-> 90, y |-> 120, enemy_type_id |-> 1, patrol_range |-> 100],
          [x |-> 90, y |-> 120, enemy_type_id |-> 3, patrol_range |-> 100]>>,
        <<[x |-> 136, y |-> 104, collectible_type_id |-> 1]>>)

NextDoom ==
    \/ StartRun
    \/ KeyEscape
    \/ KeyReturn
    \/ TickWith(LeftKeys)

SpecDoom ==
    /\ GameInit({<<ReviveLevel>>, <<DoomLevel, LastLevel>>, <<DoomLevel>>})
    /\ [][NextDoom]_vars

\* C24: a pass in which the hazards and the enemy contacts take the
\* player's health from above 0 to 0 or below ends with game_over set.
C24_Step ==
    (ev'.kind = "tick" /\ player.health > 0 /\ ev'.hurt.health <= 0) => game_over'

C24_DeadlyDamageEndsGame == [][C24_Step]_vars

\* What the code does: a pass sets game_over exactly when the player's
\* health is 0 or below after the collectibles were applied, or the player
\* is below the level's bottom.
C24_CodeStep ==
    ev'.kind = "tick" =>
        (game_over' <=>
            \/ ev'.at_end.player.health <= 0
            \/ ev'.at_end.player.y > H(levels[ev'.level_index + 1].height * TILE_SIZE))

C24_DeathAfterCollectibles == [][C24_CodeStep]_vars

\* A pass took the player's health to 0 by contact, a potion picked up in
\* the same pass put it back to 20, and the run goes on.
C24_Revived ==
    /\ ev.kind = "tick"
    /\ ev.body.health = max_health
    /\ ev.hurt.health = 0
    /\ player.health = 20
    /\ ~game_over
    /\ state = "playing"

\* C25: a pass that sets game_over leaves the run in its level and in the
\* playing state, and adds the level's score to total_score once.
C25_Step ==
    (ev'.kind = "tick" /\ game_over') =>
        /\ current_level_index' = current_level_index
        /\ state' = "playing"
        /\ total_score' = total_score + ev'.at_end.score

C25_NoCompletionWhenDead == [][C25_Step]_vars

\* What the code does: a pass calls advance_level whenever it ends with
\* the requirements met and the player on an exit tile, dead or not, and
\* advance_level adds the level's score to a total_score that
\* check_player_death had already added it to.
C25_CodeStep ==
    (ev'.kind = "tick" /\ game_over' /\ ev'.advanced) =>
        /\ LeftLevel
        /\ total_score' = total_score + 2 * ev'.at_end.score

C25_CompletionWhenDead == [][C25_CodeStep]_vars

\* The run moved to its second level with a dead player, game_over set and
\* the first level's 100 points counted twice.
C25_AdvancedDead ==
    /\ ev.kind = "tick"
    /\ game_over
    /\ player.health = 0
    /\ state = "playing"
    /\ current_level_index = 1
    /\ total_score = 200

\* The run of one level ended as won in the pass that set game_over.
C25_WonDead ==
    /\ ev.kind = "tick"
    /\ game_over
    /\ player.health = 0
    /\ state = "title"
    /\ total_score = 200

\* ------------------------------------------- requirement counters (C26)
\* The enemies of a level that are of a required type and dead, and its
\* collectibles that are of a required type and collected.
RequiredDead(lv) ==
    {k \in 1..Len(lv.enemies) :
        /\ DictGet(lv.enemy_types, lv.enemies[k].enemy_type).required
        /\ ~lv.enemies[k].alive}

RequiredCollected(lv) ==
    {k \in 1..Len(lv.collectibles) :
        /\ DictGet(lv.collectible_types, lv.collectibles[k].collectible_type).required
        /\ lv.collectibles[k].collected}

\* C26: in every level of a run, required_enemies_killed is the number of
\* dead enemies of a required type and required_collectibles_collected the
\* number of collected collectibles of a required type, and neither is
\* above its total.
C26_CountersMatch ==
    \A i \in 1..Len(levels) :
        LET lv == levels[i]
        IN  /\ lv.required_enemies_killed <= lv.required_enemies_total
            /\ lv.required_collectibles_collected <= lv.required_collectibles_total
            /\ lv.required_enemies_killed = Cardinality(RequiredDead(lv))
            /\ lv.required_collectibles_collected = Cardinality(RequiredCollected(lv))

\* The required enemy is dead, the other one too, one of the two required
\* coins is collected, and the player stands on the collected coin.
C26_Witness ==
    /\ ev.kind = "tick"
    /\ current_level_index = 0
    /\ LET lv == levels[1]
       IN  /\ lv.required_enemies_killed = 1
           /\ \A k \in 1..Len(lv.enemies) : ~lv.enemies[k].alive
           /\ lv.required_collectibles_collected = 1
           /\ \E k \in 1..Len(lv.collectibles) :
                 /\ lv.collectibles[k].collected
                 /\ colliderect(get_rect(player), Collectible_get_rect(lv.collectibles[k]))

\* --------------------------------------------------- attack timers (C27)
\* C27: while a run has a player, attack_timer is within 0..attack_duration
\* and attack_cooldown_timer within 0..attack_cooldown, and the player is
\* not attacking while attack_cooldown_timer is above 0.
C27_AttackTimers ==
    state = "playing" =>
        /\ 0 <= player.attack_timer
        /\ player.attack_timer <= attack_duration
        /\ 0 <= player.attack_cooldown_timer
        /\ player.attack_cooldown_timer <= attack_cooldown
        /\ ~(player.attacking /\ player.attack_cooldown_timer > 0)

\* An attack request accepted in the state the last pass of a cooldown
\* left: attacking, with the full attack_timer and no cooldown.
C27_Witness ==
    /\ ev.kind = "space"
    /\ state = "playing"
    /\ player.attacking
    /\ player.attack_timer = attack_duration
    /\ player.attack_cooldown_timer = 0
    /\ levels[1].required_enemies_killed = 1

\* The pass in which an attack expired: not attacking, the cooldown at its
\* highest.
C27_WitnessCooling ==
    /\ ev.kind = "tick"
    /\ state = "playing"
    /\ ~player.attacking
    /\ player.attack_timer = 0
    /\ player.attack_cooldown_timer = attack_cooldown - 1

\* ------------------------------------------------------- knockback (C28)
\* A floor under the start position with a wall two tiles high at its left
\* end, 4 pixels left of the player's box.  An enemy (type 3, 15 points of
\* contact damage) hangs over the right half of the start position.
WallShoveLevel ==
    LevelDoc(12, 10,
        <<>>,
        Row("main", 0, 8, 5, 7) \o Row("main", 0, 6, 5, 5) \o Row("main", 0, 7, 5, 5),
        <<>>,
        <<[x |-> 104, y |-> 112, enemy_type_id |-> 3, patrol_range |-> 100]>>,
        <<>>)

\* A level eight tiles wide, whose right edge is 14 pixels right of the
\* player's box at the start position, with a floor of two tiles.  The
\* enemy hangs over the left half of the start position.
EdgeShoveLevel ==
    LevelDoc(8, 10,
        <<>>,
        Row("main", 0, 8, 6, 7),
        <<>>,
        <<[x |-> 96, y |-> 112, enemy_type_id |-> 3, patrol_range |-> 100]>>,
        <<>>)

NextShove ==
    \/ StartRun
    \/ KeyEscape
    \/ KeyReturn
    \/ TickWith(WalkKeys)

SpecShove == GameInit({<<WallShoveLevel>>, <<EdgeShoveLevel>>}) /\ [][NextShove]_vars

\* The solid tiles of the level being played that the player's box
\* overlaps.
SolidsOverlapped ==
    LET tiles == get_solid_tiles(level_of(Self))
    IN  {i \in 1..Len(tiles) : colliderect(get_rect(player), TileRect(tiles[i]))}

WithinLevel ==
    /\ 0 <= player.x
    /\ player.x <= H(level_of(Self).width * TILE_SIZE - player_width)

\* C28: a run that starts with the player's box clear of the solid tiles
\* ends every pass with the box clear of them and within the level's
\* horizontal bounds.
C28_ClearOfSolids ==
    (state = "playing" /\ ev.kind = "tick") =>
        /\ SolidsOverlapped = {}
        /\ WithinLevel

\* The runs do start with the player's box clear of the solid tiles and
\* within the bounds.
C28_StartsClear ==
    (state = "playing" /\ ev.kind = "start_run") =>
        /\ SolidsOverlapped = {}
        /\ WithinLevel

\* What the code does: Player.update leaves the player within the bounds,
\* and a pass without a contact leaves the player where Player.update did.
C28_OnlyContactsPush ==
    (state = "playing" /\ ev.kind = "tick") =>
        /\ 0 <= ev.body.x
        /\ ev.body.x <= H(level_of(Self).width * TILE_SIZE - player_width)
        /\ Touching(ev) = {} => player.x = ev.body.x
        /\ Touching(ev) # {} => Abs(player.x - ev.body.x) = H(PLAYER_KNOCKBACK)

\* A contact pushed the player's box into the wall.
C28_InWall ==
    /\ state = "playing"
    /\ ev.kind = "tick"
    /\ ~game_over
    /\ SolidsOverlapped # {}
    /\ player.x < ev.body.x

\* A contact pushed the player's box over the level's right edge.
C28_OverEdge ==
    /\ state = "playing"
    /\ ev.kind = "tick"
    /\ ~game_over
    /\ player.x > H(level_of(Self).width * TILE_SIZE - player_width)

\* ---------------------------------------------------- patrol range (C29)
\* C29: the patrol enemy, which no attack ever hits, ends every pass with
\* start_x - patrol_range <= x <= start_x + patrol_range.
C29_WithinPatrolRange ==
    ev.kind = "tick" =>
        LET e == levels[1].enemies[1]
        IN  /\ H(e.start_x - e.patrol_range) <= e.x
            /\ e.x <= H(e.start_x + e.patrol_range)

\* What the code does: the enemy ends every pass within its range widened
\* by one step of its speed on each side.
C29_WithinOneStep ==
    ev.kind = "tick" =>
        LET e == levels[1].enemies[1]
            step == DictGet(levels[1].enemy_types, e.enemy_type).speed
        IN  /\ H(e.start_x - e.patrol_range) - step <= e.x
            /\ e.x <= H(e.start_x + e.patrol_range) + step

\* The enemy a step left of its range, just turned to the right.
C29_BeyondLeft ==
    /\ ev.kind = "tick"
    /\ levels[1].enemies[1].x = H(48)
    /\ levels[1].enemies[1].direction = 1
    /\ levels[1].enemies[1].health = 25

\* -------------------------------------------------------- climbing (C30)
\* C30: every pass ends with climbing true only if on_ladder is true, and
\* never with climbing and on_ground both true.
C30_ClimbingOnLadder ==
    (ev.kind = "tick" /\ state = "playing") =>
        /\ player.climbing => player.on_ladder
        /\ ~(player.climbing /\ player.on_ground)

\* What the code does: only a left or right key or a landing clears
\* climbing, so a pass that begins climbing and has neither ends climbing,
\* on a ladder or not, and moves with the vel_y the keys gave it (off the
\* ladder, the vel_y it had): no gravity.
C30_Step ==
    (ev'.kind = "tick" /\ player.climbing /\ ~ev'.keys.left /\ ~ev'.keys.right
        /\ ~ev'.vout.on_ground) =>
        /\ ev'.vout.climbing
        /\ ev'.vin.vel_y = AtJumpCheck.vel_y
        /\ ~player.on_ladder => ev'.vin.vel_y = player.vel_y

C30_ClimbingUntilKeyOrLanding == [][C30_Step]_vars

\* The second half holds: no pass ends with climbing and on_ground both
\* true.
C30_NotClimbingOnGround ==
    (ev.kind = "tick" /\ state = "playing") => ~(player.climbing /\ player.on_ground)

\* The player climbed past the top of the ladder: above it, off it, still
\* climbing and still moving up at the climbing speed.
C30_PastTheTop ==
    /\ ev.kind = "tick"
    /\ state = "playing"
    /\ player.climbing
    /\ ~player.on_ladder
    /\ player.vel_y = -H(player_speed)
    /\ player.y < H(5 * TILE_SIZE - player_height)

\* The player hangs at the level's top with no key held: climbing, off the
\* ladder, at rest.
C30_Floating ==
    /\ ev.kind = "tick"
    /\ state = "playing"
    /\ ev.keys = NoKeys
    /\ player.climbing
    /\ ~player.on_ladder
    /\ player.y = 0
    /\ player.vel_y = 0

====
